---- MODULE Spec2Model ----
(***************************************************************************)
(* Model of the retunnel client supervisor, HighPerformanceClient          *)
(* (src/retunnel/client/high_performance_model.py).                        *)
(*                                                                         *)
(* The client runs on one asyncio event loop: a task runs without          *)
(* interruption from one await that suspends to the next, so every action  *)
(* below is the code between two suspension points of one task.  The       *)
(* gateway, the registrar and the transport are the environment; their     *)
(* answers are drawn from small sets.                                      *)
(*                                                                         *)
(* Text is modelled as a sequence of atoms (<<"Invalid auth token">>,      *)
(* <<"Invalid auth token", ": expired">>) so that Python's substring test  *)
(* `a in b` is a contiguous-subsequence test and not an equality.          *)
(***************************************************************************)
EXTENDS Naturals, Sequences, FiniteSets, TLC

(***************************************************************************)
(* Bounds of the model (not program constants).                            *)
(***************************************************************************)
\* In every run the environment has a budget: how many connect() attempts
\* it lets fail, how many control streams it drops, how many request_tunnel
\* calls the operator makes, how many first Auth frames the gateway answers
\* with "Invalid auth token".
MaxFails == 1
MaxDrops == 1
MaxUserCalls == 1
MaxRefusals == 1
\* the drops of the runs in which a re-established stream fails again
MaxDropsFlaky == 2
\* the request_tunnel calls of the runs that reconnect with several tunnels
MaxTunnels == 2
\* the failed attempts of the runs that follow the backoff to its ceiling
MaxAttempts == 6
\* the close() calls of the runs that close a supervisor again
MaxCloses == 2
\* the ReqProxy frames and the Proxy requests of the runs with proxy sessions
MaxProxies == 1
MaxRequests == 1
\* the TCP reads the response of the local service arrives in
MaxReads == 3

(***************************************************************************)
(* Program constants.                                                      *)
(***************************************************************************)
\* self._reconnect_delay = 1.0
InitialReconnectDelay == 1
\* self._max_reconnect_delay = 16.0
MaxReconnectDelay == 16

(***************************************************************************)
(* Values.                                                                 *)
(***************************************************************************)
\* Python's None
None == "None"
\* the empty str
Empty == ""
\* the token the operator starts with, and the ones the registrar hands out
\* within one connect(): every registrar call that succeeds mints a new one
OldToken == "tok0"
Minted == <<"tok1", "tok2", "tok3">>

\* bool(x) of an Optional[str]
Truthy(x) == x # None /\ x # Empty

\* `needle in hay` for text modelled as a sequence of atoms
Contains(hay, needle) ==
    \E i \in 1..(Len(hay) + 1) :
        /\ i + Len(needle) - 1 <= Len(hay)
        /\ SubSeq(hay, i, i + Len(needle) - 1) = needle

\* the literal the code looks for in AuthResp.Error
InvalidAuthToken == <<"Invalid auth token">>
\* the values of AuthResp.Error the gateway answers with; <<>> is "no Error"
AuthErrors ==
    { <<>>,
      <<"Invalid auth token">>,
      <<"Invalid auth token", ": expired">>,
      <<"Account suspended">> }

Min(a, b) == IF a <= b THEN a ELSE b


(***************************************************************************)
(* State.                                                                  *)
(***************************************************************************)
VARIABLES
    \* ---- fields of HighPerformanceClient (__init__)
    auth_token,          \* self.auth_token: None, "" or a token
    control_ws,          \* self.control_ws: "none" (None), "open", "closed",
                         \* or "broken" (transport lost, .closed still false)
    is_connected,        \* self.is_connected
    connection_status,   \* self.connection_status
    _reconnect_delay,    \* self._reconnect_delay, in seconds
    _reconnecting,       \* self._reconnecting
    _running,            \* self._running
    tunnels,             \* self.tunnels: the entries of the dict, in insertion order
    pending_requests,    \* self.pending_requests: a set of [rid, done, result]
    configs,             \* the TunnelConfig objects the operator made, by number
    \* ---- the token store (config_manager)
    stored_token,        \* ClientConfig.auth_token as persisted
    \* ---- tasks on the event loop and where each one is suspended
    conn,                \* the connect() in progress: [pc, caller]
    ctl,                 \* the _control_loop task: [pc, msg]
    heartbeat_tasks,     \* the _heartbeat_loop tasks not yet finished: whether
                         \* self._heartbeat_task is one, and how many older ones
    subdomain_tasks,     \* bag of _subdomain_heartbeat tasks, as a sequence of subdomains
    rc,                  \* the _reconnect task: [pc, todo]
    calls,               \* the request_tunnel calls suspended in wait_for
    closing,             \* close(): "no", "begun" (awaiting gather), "done",
                         \* "again" (a later close() awaiting), "failed" (raised),
                         \* "streams" (awaiting control_ws.close())
    \* ---- proxy sessions
    req_proxy_tasks,     \* the _handle_req_proxy tasks suspended in ws_connect
    proxy_tasks,         \* self.proxy_tasks: the sessions whose task it holds
    proxy_connections,   \* self.proxy_connections: the sessions whose stream it holds
    sessions,            \* the _handle_proxy_connection tasks ever created:
                         \* [pc, ws, obj, local]
    old_streams,         \* the control streams that were still open when
                         \* self.control_ws was given another one: their number
    \* ---- one call looked at by itself
    exchange,            \* the locals of _handle_proxy_connection while it
                         \* handles one Proxy frame, and what it sent
    wire,                \* a frame on its way through _send_message and
                         \* _receive_message, or the reader task of a
                         \* WebSocketConnection
    genserver,           \* a GenServer, its thread and its caller
    control_conn,        \* the message queue of the control connection of a
                         \* ReTunnelClient and the two coroutines that take
                         \* from it
    \* ---- what the operator and the wire have seen (history)
    connect_outcome,     \* how the last connect() ended
    authLog,             \* User field of the Auth frames sent by the current connect()
    authResps,           \* Error field of the AuthResp frames it received
    apiLog,              \* registrar calls made by the current connect()
    sleeps,              \* delays slept by the current _reconnect task, in order
    rereqOf,             \* list(self.tunnels.values()) of the last reconnect
    rereqLog,            \* the re-requests made for it so far
    errLog,              \* tunnels whose re-request was logged as failed
    lastCall,            \* how the request_tunnel call that ended last ended
    nextReq,             \* request ids minted so far
    budget               \* what the environment may still do: [fails, drops,
                         \* calls, refusals, closes, proxies, requests]

clientVars == <<auth_token, control_ws, is_connected, connection_status,
                _reconnect_delay, _reconnecting, _running, tunnels,
                pending_requests, configs, stored_token>>
taskVars == <<conn, ctl, heartbeat_tasks, subdomain_tasks, rc, calls, closing>>
histVars == <<connect_outcome, authLog, authResps, apiLog, sleeps, rereqOf,
              rereqLog, errLog, lastCall, nextReq, budget>>
probeVars == <<exchange, wire, genserver, control_conn>>
proxyVars == <<req_proxy_tasks, proxy_tasks, proxy_connections, sessions,
               old_streams, probeVars>>
vars == <<clientVars, taskVars, histVars, proxyVars>>

\* a task that has not been created, and values that are not there
Idle == [pc |-> "idle", caller |-> "-"]
NoRc == [pc |-> "none", todo |-> <<>>]
\* a frame of the message catalog; absent fields hold "" (resp.get(k, ""))
\* and an absent Protocol holds None
NoFrame == [Type |-> "none", ReqId |-> 0, Error |-> "", Url |-> <<>>,
            Subdomain |-> "", TunnelId |-> "", Protocol |-> None]
NoCtl == [pc |-> "none", msg |-> NoFrame]
NoTunnel == [id |-> "", url |-> <<>>, protocol |-> "", config |-> 0,
             tunnel_id |-> "", subdomain |-> "", bytes_in |-> 0,
             bytes_out |-> 0, obj |-> 0]
NoCall == [rid |-> 0, caller |-> "-", outcome |-> "none", sent |-> FALSE,
           waited |-> FALSE, connected |-> FALSE, config |-> 0,
           tunnel |-> NoTunnel]
\* no Proxy frame is being handled, no frame is on its way
NoExchange == [pc |-> "idle"]
NoWire == [pc |-> "idle"]
\* no GenServer was made
NoGenServer == [pc |-> "absent"]
\* no ReTunnelClient was made
NoControlConn == [pc |-> "absent"]

(***************************************************************************)
(* __init__ (lines 75-110), for the tokens `given` by the caller, the       *)
(* contents `stored` of the token store and the budgets of the runs.       *)
(***************************************************************************)
InitSupervisor(given, stored, budgets) ==
    /\ auth_token \in given
    /\ stored_token \in stored
    /\ budget \in budgets
    /\ control_ws = "none"
    /\ is_connected = FALSE
    /\ connection_status = "Disconnected"
    /\ _reconnect_delay = InitialReconnectDelay
    /\ _reconnecting = FALSE
    /\ _running = TRUE
    /\ tunnels = <<>>
    /\ pending_requests = {}
    /\ configs = <<>>
    /\ conn = Idle
    /\ ctl = NoCtl
    /\ heartbeat_tasks = [latest |-> FALSE, older |-> 0]
    /\ subdomain_tasks = <<>>
    /\ rc = NoRc
    /\ calls = {}
    /\ closing = "no"
    /\ connect_outcome = "none"
    /\ authLog = <<>>
    /\ authResps = <<>>
    /\ apiLog = <<>>
    /\ sleeps = <<>>
    /\ rereqOf = <<>>
    /\ rereqLog = <<>>
    /\ errLog = {}
    /\ lastCall = NoCall
    /\ nextReq = 0
    /\ req_proxy_tasks = 0
    /\ proxy_tasks = {}
    /\ proxy_connections = {}
    /\ sessions = <<>>
    /\ old_streams = 0

InitClient(given, stored, budgets) ==
    /\ InitSupervisor(given, stored, budgets)
    /\ exchange = NoExchange
    /\ wire = NoWire
    /\ genserver = NoGenServer
    /\ control_conn = NoControlConn

\* a budget of the runs with one close() and without proxy sessions
Budget(f, d, c, r) ==
    [fails |-> f, drops |-> d, calls |-> c, refusals |-> r, closes |-> 1,
     proxies |-> 0, requests |-> 0, connects |-> 1, parallel |-> 1,
     strays |-> 0]

\* what the environment does in a run
Base == Budget(MaxFails, MaxDrops, MaxUserCalls, MaxRefusals)

\* the supervisor started with a token, as the CLI does after `authtoken`
Init == InitClient({OldToken}, {OldToken}, {Base})


(***************************************************************************)
(* The registrar (api_client.py): what a REST call can answer.  A status   *)
(* of 400 or more is raised by _request as APIError(status); 500 stands    *)
(* for every failure other than 404, a timeout included.                   *)
(***************************************************************************)
\* the answers to the k-th registrar call of a connect()
RegisterReplies(k) ==
    { [status |-> 200, auth_token |-> Minted[k]],
      [status |-> 200, auth_token |-> None],
      [status |-> 200, auth_token |-> Empty],
      [status |-> 500, auth_token |-> None] }

ReactivateReplies(k) ==
    { [status |-> 200, auth_token |-> Minted[k]],
      [status |-> 200, auth_token |-> None],
      [status |-> 200, auth_token |-> Empty],
      [status |-> 404, auth_token |-> None],
      [status |-> 500, auth_token |-> None] }

\* a registrar call as the log keeps it
ApiCall(call, arg, reply) ==
    [call |-> call, arg |-> arg, status |-> reply.status]

(***************************************************************************)
(* _ensure_auth_token (lines 112-154): the token after it, what it         *)
(* persisted and which registrar call it made; ok = FALSE when it raises.  *)
(***************************************************************************)
EnsureAuthToken(tok, stored, reg) ==
    LET loaded == IF ~Truthy(tok) THEN stored ELSE tok
    IN  IF Truthy(loaded)
        THEN [ok |-> TRUE, auth_token |-> loaded, stored |-> stored, api |-> <<>>]
        ELSE IF reg.status >= 400
        THEN [ok |-> FALSE, auth_token |-> loaded, stored |-> stored,
              api |-> <<ApiCall("register", None, reg)>>]
        ELSE IF Truthy(reg.auth_token)
        THEN [ok |-> TRUE, auth_token |-> reg.auth_token,
              stored |-> reg.auth_token,
              api |-> <<ApiCall("register", None, reg)>>]
        ELSE [ok |-> FALSE, auth_token |-> reg.auth_token, stored |-> stored,
              api |-> <<ApiCall("register", None, reg)>>]

(***************************************************************************)
(* The decision on the first AuthResp (lines 278-280, 357-358):            *)
(* "ok", "repair" or "fatal".                                              *)
(***************************************************************************)
\* the decision had the code compared the Error with `==`
OnAuthRespExact(err) ==
    IF err = <<>> THEN "ok"
    ELSE IF err = InvalidAuthToken THEN "repair"
    ELSE "fatal"

OnAuthResp(err) ==
    IF err = <<>> THEN "ok"
    ELSE IF Contains(err, InvalidAuthToken) THEN "repair"
    ELSE "fatal"

(***************************************************************************)
(* Token repair (lines 288-340): reactivate the old token, or register     *)
(* when there is none or when reactivation answers 404.  The assignment    *)
(* self.auth_token = result.get("auth_token") comes before the test of     *)
(* its value, so a reply without a usable token is kept in the field.      *)
(***************************************************************************)
\* a repair that keeps the new token in memory only
NotPersisted(stored, tok) == stored

\* config_manager.set_auth_token(tok), reached only with a usable token
Persisted(stored, tok) == IF Truthy(tok) THEN tok ELSE stored

RepairToken(old, stored, react, reg) ==
    LET first == IF Truthy(old) THEN react ELSE reg
        firstCall == IF Truthy(old)
                     THEN ApiCall("reactivate", old, first)
                     ELSE ApiCall("register", None, first)
    IN  IF first.status < 400
        THEN [ok |-> Truthy(first.auth_token),
              auth_token |-> first.auth_token,
              stored |-> Persisted(stored, first.auth_token),
              api |-> <<firstCall>>]
        ELSE IF first.status = 404
        THEN IF reg.status >= 400
             THEN [ok |-> FALSE, auth_token |-> old, stored |-> stored,
                   api |-> <<firstCall, ApiCall("register", None, reg)>>]
             ELSE [ok |-> Truthy(reg.auth_token),
                   auth_token |-> reg.auth_token,
                   stored |-> Persisted(stored, reg.auth_token),
                   api |-> <<firstCall, ApiCall("register", None, reg)>>]
        ELSE [ok |-> FALSE, auth_token |-> old, stored |-> stored,
              api |-> <<firstCall>>]

(***************************************************************************)
(* The backoff (lines 1030-1032 and 371-373).                              *)
(***************************************************************************)
\* a doubling without the ceiling
NextDelayUncapped(d) == d * 2

NextDelay(d) == Min(d * 2, MaxReconnectDelay)

DelayAfterConnect(d) == InitialReconnectDelay


(***************************************************************************)
(* request_tunnel, the part before the wait (lines 380-399).               *)
(***************************************************************************)
\* x or ""
OrEmpty(x) == IF Truthy(x) THEN x ELSE Empty

\* the ReqTunnel frame built from a config (lines 383-391)
ReqTunnelFrame(rid, cfg) ==
    [Type |-> "ReqTunnel", ReqId |-> rid, Protocol |-> cfg.protocol,
     Subdomain |-> OrEmpty(cfg.subdomain)]

\* `if self.control_ws: await self._send_message(...)` (lines 398-399):
\* "skipped" without a stream, "raised" on a closed or broken one, else
\* "sent"
SendOn(ws) ==
    IF ws = "none" THEN "skipped"
    ELSE IF ws \in {"closed", "broken"} THEN "raised"
    ELSE "sent"

\* `self.control_ws and not self.control_ws.closed` (lines 898, 900, 913,
\* 915, 934-938, 989, 1068)
NotClosed(ws) == ws \in {"open", "broken"}

\* a future that is not done (line 394)
NewFuture(rid) == [rid |-> rid, done |-> FALSE, result |-> NoFrame]

\* self.pending_requests.pop(req_id, None) (line 459)
Pop(pending, rid) == { f \in pending : f.rid # rid }

(***************************************************************************)
(* request_tunnel, the part after the wait (lines 405-456).                *)
(***************************************************************************)
\* what the reply makes of the call: "ErrorResp", "TunnelError" or "ok"
ReplyOutcome(resp) ==
    IF resp.Type = "ErrorResp" THEN "ErrorResp"
    ELSE IF resp.Error # "" THEN "TunnelError"
    ELSE "ok"

\* "localhost" in url or "127.0.0.1" in url
IsLoopbackUrl(url) ==
    Contains(url, <<"localhost">>) \/ Contains(url, <<"127.0.0.1">>)

\* tunnel_id = resp.get("TunnelId", "") or subdomain (line 431)
TunnelIdOf(resp) ==
    IF resp.TunnelId # "" THEN resp.TunnelId ELSE resp.Subdomain

\* the Tunnel object built from the reply (lines 429-447); every call
\* builds a new object, told apart here by the ReqId of its reply
TunnelFromReply(cfgId, cfg, resp) ==
    LET subdomain == resp.Subdomain
        url == IF /\ cfg.protocol = "http"
                  /\ subdomain # ""
                  /\ resp.Url # <<>>
                  /\ IsLoopbackUrl(resp.Url)
               THEN <<"https://", subdomain, ".retunnel.net">>
               ELSE resp.Url
    IN  [id |-> TunnelIdOf(resp),
         url |-> url,
         protocol |-> IF resp.Protocol # None THEN resp.Protocol
                      ELSE cfg.protocol,
         config |-> cfgId,
         tunnel_id |-> TunnelIdOf(resp),
         subdomain |-> subdomain,
         bytes_in |-> 0,
         bytes_out |-> 0,
         obj |-> resp.ReqId]

\* self.tunnels[tunnel.id] = tunnel (line 449): a dict keeps a key's place
Store(reg, t) ==
    IF \E i \in 1..Len(reg) : reg[i].id = t.id
    THEN [i \in 1..Len(reg) |-> IF reg[i].id = t.id THEN t ELSE reg[i]]
    ELSE Append(reg, t)

\* a call that stored its tunnel object whatever the outcome
StoredAlways(reg, outcome, tunnel) == Store(reg, tunnel)

\* the registry after a call that left its wait with `outcome`: every
\* failure is raised before line 449
StoredAfter(reg, outcome, tunnel) ==
    IF outcome = "ok" THEN Store(reg, tunnel) ELSE reg

\* the subdomain heartbeat started for the tunnel, if any (lines 453-454)
HeartbeatsFor(cfg, resp) ==
    IF cfg.protocol = "http" /\ resp.Subdomain # ""
    THEN <<resp.Subdomain>> ELSE <<>>

(***************************************************************************)
(* The re-request of one tunnel in _reconnect (lines 1005-1010): the       *)
(* config object is changed in place.                                      *)
(***************************************************************************)
\* a re-request that forced the subdomain for every protocol
ForcedAlways(cfg, tunnel) == [cfg EXCEPT !.subdomain = tunnel.subdomain]

ForcedConfig(cfg, tunnel) ==
    IF tunnel.protocol = "http"
    THEN [cfg EXCEPT !.subdomain = tunnel.subdomain]
    ELSE cfg


(***************************************************************************)
(* The loop over the tunnels in _reconnect (lines 1002-1023), run from     *)
(* `todo` up to the next wait: a request_tunnel whose send raises is       *)
(* logged and the loop goes on at once (the future it registered stays in  *)
(* pending_requests: the send is outside the try/finally); one whose send  *)
(* went out suspends in wait_for.  With nothing left the task sets         *)
(* _reconnecting = False and ends.                                         *)
(***************************************************************************)
RECURSIVE RereqRun(_, _, _, _, _, _, _)
RereqRun(todo, ws, pend, nreq, cfgs, log, errs) ==
    IF todo = <<>>
    THEN [rc |-> NoRc, reconnecting |-> FALSE, pending |-> pend,
          nextReq |-> nreq, configs |-> cfgs, rereqLog |-> log,
          errLog |-> errs, newCalls |-> {}]
    ELSE LET t == Head(todo)
             cfg == ForcedConfig(cfgs[t.config], t)
             cfgs1 == [cfgs EXCEPT ![t.config] = cfg]
             rid == nreq + 1
             entry == [tunnel |-> t, before |-> cfgs[t.config],
                       frame |-> ReqTunnelFrame(rid, cfg),
                       sent |-> SendOn(ws) = "sent"]
         IN  IF SendOn(ws) = "raised"
             THEN RereqRun(Tail(todo), ws, pend \cup {NewFuture(rid)}, rid,
                           cfgs1, Append(log, entry), errs \cup {t.id})
             ELSE [rc |-> [pc |-> "rereq", todo |-> Tail(todo)],
                   reconnecting |-> TRUE,
                   pending |-> pend \cup {NewFuture(rid)},
                   nextReq |-> rid, configs |-> cfgs1,
                   rereqLog |-> Append(log, entry), errLog |-> errs,
                   newCalls |-> {[rid |-> rid, config |-> t.config,
                                  caller |-> "rc", tid |-> t.id,
                                  sent |-> SendOn(ws) = "sent",
                                  connected |-> TRUE,
                                  live |-> SendOn(ws) = "sent"]}]

(***************************************************************************)
(* How a step of connect() ends.                                           *)
(***************************************************************************)
\* the environment may still make this reconnect attempt fail
CanFail == budget.fails > 0

\* the budget after a failed attempt
Spent(b) == [b EXCEPT !.fails = b.fails - 1]

\* connect() goes on to its next await
ConnectGoesOn(pc) ==
    /\ conn' = [conn EXCEPT !.pc = pc]
    /\ UNCHANGED budget
    /\ UNCHANGED <<is_connected, connection_status, _reconnect_delay,
                   _reconnecting, tunnels, pending_requests, configs, ctl,
                   heartbeat_tasks, rc, calls, connect_outcome, rereqOf,
                   rereqLog, errLog, lastCall, nextReq>>

\* connect() raises: to the operator, or into the except clause of
\* _reconnect (lines 1025-1032), which doubles the delay and loops
ConnectRaises(kind) ==
    /\ conn' = Idle
    /\ connect_outcome' = kind
    /\ budget' = Spent(budget)
    /\ IF conn.caller = "rc"
       THEN /\ connection_status' = "Reconnecting"
            /\ _reconnect_delay' = NextDelay(_reconnect_delay)
            /\ rc' = [rc EXCEPT !.pc = "sleep"]
       ELSE UNCHANGED <<connection_status, _reconnect_delay, rc>>
    /\ UNCHANGED <<is_connected, _reconnecting, tunnels, pending_requests,
                   configs, ctl, heartbeat_tasks, calls, rereqOf, rereqLog,
                   errLog, lastCall, nextReq>>

\* connect() succeeds (lines 360-376); in _reconnect the loop over the
\* tunnels starts in the same step (lines 1001-1023)
ConnectSucceeds ==
    /\ conn' = Idle
    /\ connect_outcome' = "ok"
    /\ is_connected' = TRUE
    /\ connection_status' = "Connected"
    /\ _reconnect_delay' = DelayAfterConnect(_reconnect_delay)
    /\ heartbeat_tasks' = [latest |-> TRUE,
                           older |-> heartbeat_tasks.older +
                               (IF heartbeat_tasks.latest THEN 1 ELSE 0)]
    /\ ctl' = [pc |-> "start", msg |-> NoFrame]
    /\ UNCHANGED <<tunnels, lastCall, budget>>
    /\ IF conn.caller = "rc"
       THEN LET r == RereqRun(tunnels, "open", pending_requests, nextReq,
                              configs, <<>>, {})
            IN  /\ rereqOf' = tunnels
                /\ rc' = r.rc
                /\ _reconnecting' = r.reconnecting
                /\ pending_requests' = r.pending
                /\ nextReq' = r.nextReq
                /\ configs' = r.configs
                /\ rereqLog' = r.rereqLog
                /\ errLog' = r.errLog
                /\ calls' = calls \cup r.newCalls
       ELSE UNCHANGED <<rc, _reconnecting, pending_requests, nextReq,
                        configs, rereqOf, rereqLog, errLog, calls>>

\* what no step of connect() touches
ConnectFrame ==
    UNCHANGED <<_running, subdomain_tasks, closing, sleeps, req_proxy_tasks,
                proxy_tasks, proxy_connections, sessions, probeVars>>

\* self.control_ws = await self.session.ws_connect(...) (lines 257-259,
\* 343-345): the stream the field named before is not closed by it
Overwritten(ws, old) == IF ws = "open" THEN old + 1 ELSE old

(***************************************************************************)
(* The operator is one sequential caller, as the CLI is: it awaits each    *)
(* connect(), request_tunnel() and close() before it makes its next call.  *)
(***************************************************************************)
OperatorIdle ==
    /\ conn.caller # "user"
    /\ ~\E c \in calls : c.caller = "user"
    /\ closing \notin {"begun", "again", "streams"}

\* an operator that runs request_tunnel calls side by side (a gather of
\* them) has fewer of them in progress than it runs at once
OperatorMayRequest ==
    /\ conn.caller # "user"
    /\ closing \notin {"begun", "again", "streams"}
    /\ Cardinality({c \in calls : c.caller = "user"}) < budget.parallel

(***************************************************************************)
(* connect() (lines 211-376), one action per await.                        *)
(***************************************************************************)
\* the operator calls connect(): _ensure_auth_token (line 214)
UserConnect ==
    /\ OperatorIdle
    /\ conn = Idle /\ budget.connects > 0 /\ closing = "no"
    /\ \E reg \in RegisterReplies(1) :
         LET e == EnsureAuthToken(auth_token, stored_token, reg)
         IN  /\ auth_token' = e.auth_token
             /\ stored_token' = e.stored
             /\ apiLog' = e.api
             /\ authLog' = <<>>
             /\ authResps' = <<>>
             /\ connect_outcome' = IF e.ok THEN "pending" ELSE "RegisterFailed"
             /\ conn' = IF e.ok THEN [pc |-> "open", caller |-> "user"]
                        ELSE Idle
             /\ budget' = [(IF e.ok THEN budget ELSE Spent(budget))
                              EXCEPT !.connects = @ - 1]
             /\ e.ok \/ CanFail
    /\ UNCHANGED <<control_ws, is_connected, connection_status,
                   _reconnect_delay, _reconnecting, tunnels,
                   pending_requests, configs, ctl, heartbeat_tasks, rc,
                   calls, rereqOf, rereqLog, errLog, lastCall, nextReq>>
    /\ UNCHANGED old_streams
    /\ ConnectFrame

\* session.ws_connect and the Auth frame (lines 257-273)
ConnectOpen ==
    /\ conn.pc = "open"
    /\ \/ /\ control_ws' = "open"
          /\ old_streams' = Overwritten(control_ws, old_streams)
          /\ authLog' = Append(authLog, OrEmpty(auth_token))
          /\ ConnectGoesOn("auth1")
       \/ /\ CanFail
          /\ UNCHANGED <<control_ws, authLog, old_streams>>
          /\ ConnectRaises("ConnectionError")
    /\ UNCHANGED <<auth_token, stored_token, authResps, apiLog>>
    /\ ConnectFrame

\* the first AuthResp (lines 276-286, 357-358)
ConnectAuthResp ==
    /\ conn.pc = "auth1"
    /\ \E err \in AuthErrors :
         /\ authResps' = Append(authResps, err)
         /\ \/ /\ OnAuthResp(err) = "ok"
               /\ UNCHANGED control_ws
               /\ ConnectSucceeds
            \/ /\ OnAuthResp(err) = "repair"
               /\ budget.refusals > 0
               /\ control_ws' = "closed"
               /\ conn' = [conn EXCEPT !.pc = "repair"]
               /\ budget' = [budget EXCEPT !.refusals = budget.refusals - 1]
               /\ UNCHANGED <<is_connected, connection_status,
                              _reconnect_delay, _reconnecting, tunnels,
                              pending_requests, configs, ctl,
                              heartbeat_tasks, rc, calls, connect_outcome,
                              rereqOf, rereqLog, errLog, lastCall, nextReq>>
            \/ /\ OnAuthResp(err) = "fatal"
               /\ CanFail
               /\ UNCHANGED control_ws
               /\ ConnectRaises("AuthenticationError")
    /\ UNCHANGED <<auth_token, stored_token, authLog, apiLog>>
    /\ UNCHANGED old_streams
    /\ ConnectFrame

\* the stream fails while connect() waits for an AuthResp (line 276 or 351)
ConnectRecvFails ==
    /\ conn.pc \in {"auth1", "auth2"}
    /\ CanFail
    /\ control_ws' = "closed"
    /\ ConnectRaises("ConnectionError")
    /\ UNCHANGED <<auth_token, stored_token, authLog, authResps, apiLog>>
    /\ UNCHANGED old_streams
    /\ ConnectFrame

\* the registrar calls of the token repair (lines 288-340)
ConnectRepair ==
    /\ conn.pc = "repair"
    /\ \E react \in ReactivateReplies(Len(apiLog) + 1),
          reg \in RegisterReplies(Len(apiLog) + 2) :
         LET r == RepairToken(auth_token, stored_token, react, reg)
         IN  /\ r.ok \/ CanFail
             /\ auth_token' = r.auth_token
             /\ stored_token' = r.stored
             /\ apiLog' = apiLog \o r.api
             /\ IF r.ok THEN ConnectGoesOn("reopen")
                ELSE ConnectRaises("RepairFailed")
    /\ UNCHANGED <<control_ws, authLog, authResps>>
    /\ UNCHANGED old_streams
    /\ ConnectFrame

\* the second ws_connect and Auth (lines 342-350)
ConnectReopen ==
    /\ conn.pc = "reopen"
    /\ \/ /\ control_ws' = "open"
          /\ old_streams' = Overwritten(control_ws, old_streams)
          /\ authLog' = Append(authLog, auth_token)
          /\ ConnectGoesOn("auth2")
       \/ /\ CanFail
          /\ UNCHANGED <<control_ws, authLog, old_streams>>
          /\ ConnectRaises("ConnectionError")
    /\ UNCHANGED <<auth_token, stored_token, authResps, apiLog>>
    /\ ConnectFrame

\* the AuthResp to the second Auth (lines 351-356)
ConnectAuthResp2 ==
    /\ conn.pc = "auth2"
    /\ \E err \in AuthErrors :
         /\ authResps' = Append(authResps, err)
         /\ \/ /\ err = <<>>
               /\ ConnectSucceeds
            \/ /\ err # <<>>
               /\ CanFail
               /\ ConnectRaises("AuthenticationErrorAfterRepair")
    /\ UNCHANGED <<control_ws, auth_token, stored_token, authLog, apiLog>>
    /\ UNCHANGED old_streams
    /\ ConnectFrame


(***************************************************************************)
(* _reconnect (lines 970-1034).                                            *)
(***************************************************************************)
\* the task starts to run (lines 972-984)
RcStart ==
    /\ rc.pc = "created"
    /\ sleeps' = <<>>
    /\ IF _running
       THEN /\ _reconnecting' = TRUE
            /\ connection_status' = "Reconnecting"
            /\ rc' = [rc EXCEPT !.pc = "sleep"]
       ELSE /\ _reconnecting' = FALSE
            /\ rc' = NoRc
            /\ UNCHANGED connection_status
    /\ UNCHANGED <<auth_token, control_ws, is_connected, _reconnect_delay,
                   _running, tunnels, pending_requests, configs,
                   stored_token, conn, ctl, heartbeat_tasks,
                   subdomain_tasks, calls, closing, connect_outcome,
                   authLog, authResps, apiLog, rereqOf, rereqLog, errLog,
                   lastCall, nextReq, budget, proxyVars>>

\* the calls that were sent on a stream that is gone get no reply
Orphaned(cs) == { [c EXCEPT !.live = FALSE] : c \in cs }

\* session.close() (lines 994-995 and 1076-1077): the connector closes the
\* transport of every stream opened through the session
SessionClosed(ss) == [i \in 1..Len(ss) |-> [ss[i] EXCEPT !.ws = "closed"]]

\* the sleep is over: close the old stream and session, then connect() up
\* to its ws_connect (lines 984-999, 214); a ws_connect of a
\* _handle_req_proxy task on the old session fails
RcWake ==
    /\ rc.pc = "sleep"
    /\ sleeps' = Append(sleeps, _reconnect_delay)
    /\ control_ws' = IF NotClosed(control_ws) THEN "closed" ELSE control_ws
    /\ calls' = Orphaned(calls)
    /\ sessions' = SessionClosed(sessions)
    /\ req_proxy_tasks' = 0
    /\ UNCHANGED <<proxy_tasks, proxy_connections, old_streams, probeVars>>
    /\ \E reg \in RegisterReplies(1) :
         LET e == EnsureAuthToken(auth_token, stored_token, reg)
         IN  /\ e.ok \/ CanFail
             /\ budget' = IF e.ok THEN budget ELSE Spent(budget)
             /\ auth_token' = e.auth_token
             /\ stored_token' = e.stored
             /\ apiLog' = e.api
             /\ authLog' = <<>>
             /\ authResps' = <<>>
             /\ IF e.ok
                THEN /\ conn' = [pc |-> "open", caller |-> "rc"]
                     /\ rc' = [rc EXCEPT !.pc = "connect"]
                     /\ connection_status' = "Connecting"
                     /\ connect_outcome' = "pending"
                     /\ UNCHANGED _reconnect_delay
                ELSE /\ conn' = Idle
                     /\ rc' = [rc EXCEPT !.pc = "sleep"]
                     /\ connection_status' = "Reconnecting"
                     /\ connect_outcome' = "RegisterFailed"
                     /\ _reconnect_delay' = NextDelay(_reconnect_delay)
    /\ UNCHANGED <<is_connected, _reconnecting, _running, tunnels,
                   pending_requests, configs, ctl, heartbeat_tasks,
                   subdomain_tasks, closing, rereqOf, rereqLog, errLog,
                   lastCall, nextReq>>

(***************************************************************************)
(* request_tunnel (lines 378-459).                                         *)
(***************************************************************************)
\* the configurations the operator asks for
UserConfigs ==
    { [protocol |-> "http", subdomain |-> "demo", local_port |-> 8080],
      [protocol |-> "tcp", subdomain |-> None, local_port |-> 5432] }

\* the operator calls request_tunnel(cfg): up to the wait (lines 380-403)
UserRequestTunnel ==
    /\ OperatorMayRequest
    /\ budget.calls > 0
    /\ \E cfg \in UserConfigs :
         LET cfgId == Len(configs) + 1
             rid == nextReq + 1
             how == SendOn(control_ws)
         IN  /\ configs' = Append(configs, cfg)
             /\ nextReq' = rid
             /\ pending_requests' = pending_requests \cup {NewFuture(rid)}
             /\ IF how = "raised"
                THEN /\ lastCall' = [rid |-> rid, caller |-> "user",
                                     outcome |-> "SendRaised",
                                     sent |-> FALSE, waited |-> FALSE,
                                     connected |-> is_connected,
                                     config |-> cfgId, tunnel |-> NoTunnel]
                     /\ UNCHANGED calls
                ELSE /\ calls' = calls \cup
                          {[rid |-> rid, config |-> cfgId,
                            caller |-> "user", tid |-> "",
                            sent |-> how = "sent",
                            connected |-> is_connected,
                            live |-> how = "sent"]}
                     /\ UNCHANGED lastCall
    /\ budget' = [budget EXCEPT !.calls = budget.calls - 1]
    /\ UNCHANGED <<auth_token, control_ws, is_connected, connection_status,
                   _reconnect_delay, _reconnecting, _running, tunnels,
                   stored_token, conn, ctl, heartbeat_tasks,
                   subdomain_tasks, rc, closing, connect_outcome, authLog,
                   authResps, apiLog, sleeps, rereqOf, rereqLog, errLog,
                   proxyVars>>

\* the future of a request
FutureOf(rid) == CHOOSE f \in pending_requests : f.rid = rid

\* a request_tunnel call leaves its wait with `outcome` (lines 403-459);
\* `resp` is the reply when there is one
CallEnds(c, outcome, resp) ==
    LET cfg == configs[c.config]
        tunnel == IF outcome = "ok"
                  THEN TunnelFromReply(c.config, cfg, resp) ELSE NoTunnel
        popped == Pop(pending_requests, c.rid)
    IN  /\ lastCall' = [rid |-> c.rid, caller |-> c.caller,
                        outcome |-> outcome, sent |-> c.sent,
                        waited |-> TRUE, connected |-> c.connected,
                        config |-> c.config, tunnel |-> tunnel]
        /\ tunnels' = StoredAfter(tunnels, outcome, tunnel)
        /\ subdomain_tasks' = IF outcome = "ok"
                              THEN subdomain_tasks \o HeartbeatsFor(cfg, resp)
                              ELSE subdomain_tasks
        /\ IF c.caller = "rc"
           THEN LET r == RereqRun(rc.todo, control_ws, popped, nextReq,
                                  configs, rereqLog,
                                  IF outcome = "ok" THEN errLog
                                  ELSE errLog \cup {c.tid})
                IN  /\ rc' = r.rc
                    /\ _reconnecting' = r.reconnecting
                    /\ pending_requests' = r.pending
                    /\ nextReq' = r.nextReq
                    /\ configs' = r.configs
                    /\ rereqLog' = r.rereqLog
                    /\ errLog' = r.errLog
                    /\ calls' = (calls \ {c}) \cup r.newCalls
           ELSE /\ pending_requests' = popped
                /\ calls' = calls \ {c}
                /\ UNCHANGED <<rc, _reconnecting, nextReq, configs,
                               rereqLog, errLog>>
        /\ UNCHANGED <<auth_token, control_ws, is_connected,
                       connection_status, _reconnect_delay, _running,
                       stored_token, conn, ctl, heartbeat_tasks, closing,
                       connect_outcome, authLog, authResps, apiLog, sleeps,
                       rereqOf, budget, proxyVars>>

\* the future was completed: the call resumes with the reply
ReqComplete ==
    \E c \in calls :
        /\ FutureOf(c.rid).done
        /\ CallEnds(c, ReplyOutcome(FutureOf(c.rid).result),
                    FutureOf(c.rid).result)

\* no reply within the 10 s of wait_for
ReqTimeout ==
    \E c \in calls :
        /\ ~FutureOf(c.rid).done
        /\ CallEnds(c, "Timeout", NoFrame)


(***************************************************************************)
(* The gateway's frames on the control stream.                             *)
(***************************************************************************)
\* the NewTunnel acknowledgements, by Url, Subdomain, TunnelId and
\* Protocol (None: the frame has no Protocol)
NewTunnelShapes ==
    { [Url |-> <<"http://", "localhost", ":6400">>,
       Subdomain |-> "alt", TunnelId |-> "", Protocol |-> None],
      [Url |-> <<"https://", "alt", ".retunnel.net">>,
       Subdomain |-> "alt", TunnelId |-> "alt", Protocol |-> "https"],
      [Url |-> <<"tcp://", "gw", ":1">>,
       Subdomain |-> "", TunnelId |-> "tid", Protocol |-> "tcp"],
      [Url |-> <<"tcp://", "gw", ":2">>,
       Subdomain |-> "", TunnelId |-> "tid", Protocol |-> "tcp"],
      [Url |-> <<"tcp://", "gw", ":1">>,
       Subdomain |-> "", TunnelId |-> "", Protocol |-> None] }

\* the replies to the ReqTunnel with ReqId rid
RepliesTo(rid) ==
    { [NoFrame EXCEPT !.Type = "NewTunnel", !.ReqId = rid, !.Url = s.Url,
                      !.Subdomain = s.Subdomain, !.TunnelId = s.TunnelId,
                      !.Protocol = s.Protocol]
        : s \in NewTunnelShapes }
    \cup { [NoFrame EXCEPT !.Type = "NewTunnel", !.ReqId = rid,
                           !.Error = "subdomain taken"],
           [NoFrame EXCEPT !.Type = "ErrorResp", !.ReqId = rid] }

\* the ReqProxy frames the gateway may still send
ReqProxies ==
    IF budget.proxies > 0 THEN {[NoFrame EXCEPT !.Type = "ReqProxy"]} ELSE {}

\* replies the gateway may still send that answer no waiting request:
\* without ReqId, or with the ReqId of a call that is over
StrayReplies ==
    IF budget.strays > 0
    THEN { [NoFrame EXCEPT !.Type = type, !.ReqId = rid] :
             type \in {"NewTunnel", "ErrorResp"},
             rid \in (0..nextReq) \ {f.rid : f \in pending_requests} }
    ELSE {}

\* a frame arrives and wakes the receive of the control loop: a reply to a
\* request sent on this stream, a stray reply, a Ping or a ReqProxy
GatewaySends ==
    /\ ctl.pc = "recv"
    /\ control_ws = "open"
    /\ \E f \in {[NoFrame EXCEPT !.Type = "Ping"]}
                \cup ReqProxies
                \cup StrayReplies
                \cup UNION { RepliesTo(c.rid) : c \in {d \in calls : d.live} } :
         ctl' = [pc |-> "ready", msg |-> f]
    /\ UNCHANGED <<clientVars, conn, heartbeat_tasks, subdomain_tasks, rc,
                   calls, closing, histVars, proxyVars>>

\* the transport drops the control stream (the peer goes away, or the
\* keepalive of ws_connect(heartbeat=30) times out): ws.closed turns true
WsClose ==
    /\ control_ws = "open"
    /\ ctl.pc \in {"start", "recv", "ready"}
    /\ closing = "no"
    /\ budget.drops > 0
    /\ control_ws' = "closed"
    /\ budget' = [budget EXCEPT !.drops = budget.drops - 1]
    /\ calls' = Orphaned(calls)
    /\ UNCHANGED <<auth_token, is_connected, connection_status,
                   _reconnect_delay, _reconnecting, _running, tunnels,
                   pending_requests, configs, stored_token, conn, ctl,
                   heartbeat_tasks, subdomain_tasks, rc, closing,
                   connect_outcome, authLog, authResps, apiLog, sleeps,
                   rereqOf, rereqLog, errLog, lastCall, nextReq, proxyVars>>

(***************************************************************************)
(* _control_loop (lines 931-962) and _handle_message (lines 507-545).      *)
(***************************************************************************)
\* the loop condition (lines 934-938)
LoopGoesOn(running, ws) == running /\ NotClosed(ws)

\* whether the loop starts a _reconnect task when it fails
\* (lines 948 and 961)
StartsReconnect(running, reconnecting) == running /\ ~reconnecting

\* future.set_result(msg) for the waiter of msg.ReqId, if it is there and
\* not done (lines 519-529)
\* the future is given the frame whether it is done or not
CompleteAgain(pending, msg) ==
    { IF f.rid = msg.ReqId /\ msg.ReqId # 0
      THEN [f EXCEPT !.done = TRUE, !.result = msg] ELSE f : f \in pending }

Complete(pending, msg) ==
    { IF f.rid = msg.ReqId /\ msg.ReqId # 0 /\ ~f.done
      THEN [f EXCEPT !.done = TRUE, !.result = msg] ELSE f : f \in pending }

\* the loop fails: either except clause (lines 942-952, 956-962)
CtlFails(status) ==
    /\ is_connected' = FALSE
    /\ connection_status' = status
    /\ ctl' = [pc |-> "failed", msg |-> NoFrame]
    /\ rc' = IF StartsReconnect(_running, _reconnecting)
             THEN [pc |-> "created", todo |-> <<>>] ELSE rc

\* the task starts to run: the first test of the loop condition
CtlStart ==
    /\ ctl.pc = "start"
    /\ ctl' = [pc |-> IF LoopGoesOn(_running, control_ws)
                      THEN "recv" ELSE "ended",
               msg |-> NoFrame]
    /\ UNCHANGED <<clientVars, conn, heartbeat_tasks, subdomain_tasks, rc,
                   calls, closing, histVars, proxyVars>>

\* the status after the Pong could not be sent: send_bytes on a closed
\* stream raises a ClientError (inner except clause) or a plain
\* ConnectionResetError (outer clause), by the version of aiohttp
SendFailureStatus == {"Disconnected", "Error"}

\* asyncio.create_task(self._handle_req_proxy()) (lines 531-533): the
\* task is held by no field; it suspends in ws_connect (line 569)
Spawned(n, msg) == IF msg.Type = "ReqProxy" THEN n + 1 ELSE n

\* a dispatcher that awaits _handle_req_proxy() itself stays in it
AfterHandleAwaited(msg, goes_on) ==
    IF msg.Type = "ReqProxy" THEN "proxy"
    ELSE IF goes_on THEN "recv" ELSE "ended"

\* where the loop is after _handle_message returned: no branch awaits the
\* work it starts (lines 531-533), the loop condition is tested next
AfterHandle(msg, goes_on) == IF goes_on THEN "recv" ELSE "ended"

\* the receive returns a frame: _handle_message, then the loop condition
CtlHandle ==
    /\ ctl.pc = "ready"
    /\ IF ctl.msg.Type = "Ping" /\ SendOn(control_ws) = "raised"
       THEN /\ \E status \in SendFailureStatus : CtlFails(status)
            /\ UNCHANGED pending_requests
       ELSE /\ pending_requests' =
                  IF ctl.msg.Type \in {"NewTunnel", "ErrorResp"}
                  THEN Complete(pending_requests, ctl.msg)
                  ELSE pending_requests
            /\ ctl' = [pc |-> AfterHandle(ctl.msg,
                                          LoopGoesOn(_running, control_ws)),
                       msg |-> NoFrame]
            /\ UNCHANGED <<is_connected, connection_status, rc>>
    /\ req_proxy_tasks' = Spawned(req_proxy_tasks, ctl.msg)
    /\ budget' = IF ctl.msg.Type = "ReqProxy"
                 THEN [budget EXCEPT !.proxies = budget.proxies - 1]
                 ELSE IF ctl.msg \in StrayReplies
                 THEN [budget EXCEPT !.strays = budget.strays - 1]
                 ELSE budget
    /\ UNCHANGED <<auth_token, control_ws, _reconnect_delay, _reconnecting,
                   _running, tunnels, configs, stored_token, conn,
                   heartbeat_tasks, subdomain_tasks, calls, closing,
                   connect_outcome, authLog, authResps, apiLog, sleeps,
                   rereqOf, rereqLog, errLog, lastCall, nextReq,
                   proxy_tasks, proxy_connections, sessions, old_streams,
                   probeVars>>

\* the receive on a closed or broken stream yields CLOSED or ERROR and
\* _receive_message raises (lines 498-505)
CtlRecvFails ==
    /\ ctl.pc = "recv"
    /\ control_ws \in {"closed", "broken"}
    /\ CtlFails("Error")
    /\ UNCHANGED <<auth_token, control_ws, _reconnect_delay, _reconnecting,
                   _running, tunnels, pending_requests, configs,
                   stored_token, conn, heartbeat_tasks, subdomain_tasks,
                   calls, closing, histVars, proxyVars>>

(***************************************************************************)
(* _heartbeat_loop and _subdomain_heartbeat (lines 896-929): a task that   *)
(* wakes from its sleep and finds no open stream in self.control_ws ends.  *)
(***************************************************************************)
HeartbeatEnds ==
    /\ ~NotClosed(control_ws)
    /\ \/ /\ heartbeat_tasks.latest
          /\ heartbeat_tasks' = [heartbeat_tasks EXCEPT !.latest = FALSE]
       \/ /\ heartbeat_tasks.older > 0
          /\ heartbeat_tasks' =
                [heartbeat_tasks EXCEPT !.older = heartbeat_tasks.older - 1]
    /\ UNCHANGED <<clientVars, conn, ctl, subdomain_tasks, rc, calls,
                   closing, histVars, proxyVars>>

\* the Ping of a woken _heartbeat_loop raises, the transport being lost
\* before the stream shows closed: the task logs "Heartbeat error" and ends
\* (lines 900-901, 907-908)
HeartbeatSendFails ==
    /\ closing = "no"
    /\ \/ /\ control_ws = "open"
          /\ ctl.pc \in {"start", "recv", "ready"}
          /\ budget.drops > 0
          /\ budget' = [budget EXCEPT !.drops = budget.drops - 1]
          /\ control_ws' = "broken"
          /\ calls' = Orphaned(calls)
       \/ /\ control_ws = "broken"
          /\ UNCHANGED <<budget, control_ws, calls>>
    /\ \/ /\ heartbeat_tasks.latest
          /\ heartbeat_tasks' = [heartbeat_tasks EXCEPT !.latest = FALSE]
       \/ /\ heartbeat_tasks.older > 0
          /\ heartbeat_tasks' =
                [heartbeat_tasks EXCEPT !.older = heartbeat_tasks.older - 1]
    /\ UNCHANGED <<auth_token, is_connected, connection_status,
                   _reconnect_delay, _reconnecting, _running, tunnels,
                   pending_requests, configs, stored_token, conn, ctl,
                   subdomain_tasks, rc, closing, connect_outcome, authLog,
                   authResps, apiLog, sleeps, rereqOf, rereqLog, errLog,
                   lastCall, nextReq, proxyVars>>

SubdomainHeartbeatEnds ==
    /\ ~NotClosed(control_ws)
    /\ subdomain_tasks # <<>>
    /\ \E i \in 1..Len(subdomain_tasks) :
         subdomain_tasks' = SubSeq(subdomain_tasks, 1, i - 1)
                            \o SubSeq(subdomain_tasks, i + 1,
                                      Len(subdomain_tasks))
    /\ UNCHANGED <<clientVars, conn, ctl, heartbeat_tasks, rc, calls,
                   closing, histVars, proxyVars>>

(***************************************************************************)
(* _handle_req_proxy (lines 547-587): the ws_connect to the proxy endpoint  *)
(* and the RegProxy frame; the session task goes into self.proxy_tasks.    *)
(***************************************************************************)
\* a _handle_proxy_connection task that has not run yet; `skipped` tells
\* that the loop has passed over a frame before any StartProxy
NewSession ==
    [pc |-> "created", ws |-> "open", obj |-> 0, local |-> "none",
     skipped |-> FALSE]

HandleReqProxy ==
    /\ req_proxy_tasks > 0
    /\ req_proxy_tasks' = req_proxy_tasks - 1
    /\ \/ /\ sessions' = Append(sessions, NewSession)
          /\ proxy_tasks' = proxy_tasks \cup {Len(sessions) + 1}
       \/ \* ws_connect or the send raised: logged (lines 584-587)
          UNCHANGED <<sessions, proxy_tasks>>
    /\ UNCHANGED <<clientVars, taskVars, histVars, proxy_connections,
                   old_streams, probeVars>>

(***************************************************************************)
(* _handle_proxy_connection (lines 589-886), the session of one proxy      *)
(* stream.                                                                  *)
(***************************************************************************)
\* the task ends (lines 873-886): the local connection and the stream are
\* closed, the stream leaves self.proxy_connections, and the done callback
\* takes the task out of self.proxy_tasks (line 582)
Over(sn) ==
    [sn EXCEPT !.pc = "ended", !.ws = "closed",
               !.local = IF @ = "open" THEN "closed" ELSE @]

\* the same end of a task with its stream left in self.proxy_connections
SessionOverKept(i) ==
    /\ sessions' = [sessions EXCEPT ![i] = Over(@)]
    /\ proxy_connections' = proxy_connections
    /\ proxy_tasks' = proxy_tasks \ {i}

SessionOver(i) ==
    /\ sessions' = [sessions EXCEPT ![i] = Over(@)]
    /\ proxy_connections' = proxy_connections \ {i}
    /\ proxy_tasks' = proxy_tasks \ {i}

\* the task starts to run (lines 593-599): it registers its stream and
\* tests the loop condition
SessionStarts ==
    /\ \E i \in 1..Len(sessions) :
         /\ sessions[i].pc = "created"
         /\ IF sessions[i].ws = "open"
            THEN /\ sessions' = [sessions EXCEPT ![i].pc = "recv"]
                 /\ proxy_connections' = proxy_connections \cup {i}
                 /\ UNCHANGED proxy_tasks
            ELSE SessionOver(i)
    /\ UNCHANGED <<clientVars, taskVars, histVars, req_proxy_tasks,
                   old_streams, probeVars>>

\* the Url of the StartProxy frames: the public URL of a tunnel of the
\* registry, or of one the registry does not hold
StartProxyUrls ==
    { <<"https://", tunnels[i].tunnel_id, ".retunnel.net", "/">> :
        i \in 1..Len(tunnels) }
    \cup { <<"https://", "gone", ".retunnel.net", "/">> }

\* the first tunnel whose tunnel_id is in the url (lines 608-612); 0: none
FindTunnel(reg, url) ==
    LET found == { i \in 1..Len(reg) :
                     /\ reg[i].tunnel_id # ""
                     /\ Contains(url, <<reg[i].tunnel_id>>) }
    IN  IF found = {} THEN 0
        ELSE CHOOSE i \in found : \A j \in found : i <= j

\* StartProxy (lines 603-632): the session keeps the Tunnel object it found
\* and connects to the local service
SessionStartProxy ==
    /\ \E i \in 1..Len(sessions) :
         /\ sessions[i].pc = "recv"
         /\ sessions[i].ws = "open"
         /\ sessions[i].local = "none"
         /\ \E url \in StartProxyUrls :
              LET t == FindTunnel(tunnels, url)
              IN  IF t = 0
                  THEN SessionOver(i)
                  ELSE \/ /\ sessions' =
                               [sessions EXCEPT ![i].local = "open",
                                                ![i].obj = tunnels[t].obj]
                          /\ UNCHANGED <<proxy_connections, proxy_tasks>>
                       \/ \* open_connection raised
                          SessionOver(i)
    /\ UNCHANGED <<clientVars, taskVars, histVars, req_proxy_tasks,
                   old_streams, probeVars>>

\* the frames a session may get before its StartProxy: a Proxy frame, or
\* one of a type the loop has no branch for
EarlyFrames ==
    { [NoFrame EXCEPT !.Type = "Proxy"], [NoFrame EXCEPT !.Type = "Ping"] }

\* a frame that matches no branch, or a Proxy frame while local_writer is
\* None (`if data and local_writer`, line 637): nothing is done and the
\* loop receives again (lines 599-601, 634-637)
SessionSkips ==
    /\ \E i \in 1..Len(sessions) :
         /\ sessions[i].pc = "recv"
         /\ sessions[i].ws = "open"
         /\ sessions[i].local = "none"
         /\ ~sessions[i].skipped
         /\ \E f \in EarlyFrames :
              sessions' = [sessions EXCEPT ![i].skipped = f.Type # "StartProxy"]
    /\ UNCHANGED <<clientVars, taskVars, histVars, req_proxy_tasks,
                   proxy_tasks, proxy_connections, old_streams, probeVars>>

\* the sizes counted for one Proxy request: len(request_bytes), and
\* len(response_body) + len(str(response_headers)), or nothing when the
\* response could not be handled (lines 681-683, 856-865)
ProxyTraffic == { [in |-> 2, out |-> 3], [in |-> 2, out |-> 0] }

\* tunnel.bytes_in += n, tunnel.bytes_out += m on the object the session
\* holds: the registry shows it while it holds that object
Counted(reg, obj, n, m) ==
    [i \in 1..Len(reg) |->
        IF reg[i].obj = obj
        THEN [reg[i] EXCEPT !.bytes_in = @ + n, !.bytes_out = @ + m]
        ELSE reg[i]]

\* a Proxy frame (lines 634-865): the request goes to the local service and
\* its response back on the stream
SessionProxy ==
    /\ budget.requests > 0
    /\ \E i \in 1..Len(sessions) :
         /\ sessions[i].pc = "recv"
         /\ sessions[i].ws = "open"
         /\ sessions[i].local = "open"
         /\ \E t \in ProxyTraffic :
              tunnels' = Counted(tunnels, sessions[i].obj, t.in, t.out)
    /\ budget' = [budget EXCEPT !.requests = budget.requests - 1]
    /\ UNCHANGED <<auth_token, control_ws, is_connected, connection_status,
                   _reconnect_delay, _reconnecting, _running,
                   pending_requests, configs, stored_token, taskVars,
                   connect_outcome, authLog, authResps, apiLog, sleeps,
                   rereqOf, rereqLog, errLog, lastCall, nextReq, proxyVars>>

\* the receive fails: the gateway closed the stream, or it was closed
\* under the session (lines 870-886)
SessionEnds ==
    /\ \E i \in 1..Len(sessions) :
         /\ sessions[i].pc = "recv"
         /\ SessionOver(i)
    /\ UNCHANGED <<clientVars, taskVars, histVars, req_proxy_tasks,
                   old_streams, probeVars>>

(***************************************************************************)
(* close() (lines 1036-1089).                                              *)
(***************************************************************************)
\* the session tasks close() cancels (lines 1058-1061): a task that has
\* run ends through its finally clause, one that has not never runs
CancelledSession(sn) ==
    IF sn.pc = "created" THEN [sn EXCEPT !.pc = "ended"] ELSE Over(sn)

\* the sessions of self.proxy_tasks that are not done
Tracked == { i \in proxy_tasks : sessions[i].pc # "ended" }

\* up to the gather (lines 1041-1065); the cancelled tasks end at the await
\* they are suspended in: a _reconnect task inside request_tunnel runs its
\* finally clause, one inside connect() leaves the stream as it is
CloseBegins ==
    /\ closing \in {"no", "done"}
    /\ budget.closes > 0
    /\ OperatorIdle
    /\ closing' = IF closing = "no" THEN "begun" ELSE "again"
    /\ budget' = [budget EXCEPT !.closes = budget.closes - 1]
    /\ _running' = FALSE
    /\ is_connected' = FALSE
    /\ connection_status' = "Disconnected"
    /\ heartbeat_tasks' = [heartbeat_tasks EXCEPT !.latest = FALSE]
    /\ ctl' = IF ctl.pc \in {"start", "recv", "ready"}
              THEN [pc |-> "cancelled", msg |-> NoFrame] ELSE ctl
    /\ rc' = NoRc
    /\ conn' = Idle
    /\ connect_outcome' = IF conn.caller = "rc" THEN "Cancelled"
                          ELSE connect_outcome
    /\ calls' = { c \in calls : c.caller # "rc" }
    /\ pending_requests' =
          { f \in pending_requests :
              ~\E c \in calls : c.caller = "rc" /\ c.rid = f.rid }
    /\ sessions' = [i \in 1..Len(sessions) |->
                       IF i \in Tracked THEN CancelledSession(sessions[i])
                       ELSE sessions[i]]
    /\ proxy_tasks' = proxy_tasks \ Tracked
    /\ proxy_connections' = proxy_connections \ Tracked
    /\ UNCHANGED <<auth_token, control_ws, _reconnect_delay, _reconnecting,
                   tunnels, configs, stored_token, subdomain_tasks, authLog,
                   authResps, apiLog, sleeps, rereqOf, rereqLog, errLog,
                   lastCall, nextReq, req_proxy_tasks, old_streams, probeVars>>

\* a close() that calls control_ws.close() without the test for None
CloseWsUnguarded(ws) ==
    [ws |-> IF ws = "none" THEN ws ELSE "closed", raised |-> ws = "none"]

\* `if self.control_ws and not self.control_ws.closed: await
\* self.control_ws.close()` (lines 1068-1069)
CloseWs(ws) ==
    [ws |-> IF NotClosed(ws) THEN "closed" ELSE ws, raised |-> FALSE]

\* a session task created while close() waited has run to its first
\* receive before the sleeps of close() are over (lines 1079-1082)
Started(ss) ==
    [i \in 1..Len(ss) |->
        IF ss[i].pc = "created" THEN [ss[i] EXCEPT !.pc = "recv"] ELSE ss[i]]

\* after the gather, the first await of the shutdown (lines 1067-1069):
\* close() waits in control_ws.close() and the other tasks run
CloseControlStream ==
    /\ closing \in {"begun", "again"}
    /\ NotClosed(control_ws)
    /\ closing' = "streams"
    /\ control_ws' = CloseWs(control_ws).ws
    /\ calls' = Orphaned(calls)
    /\ UNCHANGED <<auth_token, is_connected, connection_status,
                   _reconnect_delay, _reconnecting, _running, tunnels,
                   pending_requests, configs, stored_token, conn, ctl,
                   heartbeat_tasks, subdomain_tasks, rc, connect_outcome,
                   authLog, authResps, apiLog, sleeps, rereqOf, rereqLog,
                   errLog, lastCall, nextReq, budget, proxyVars>>

\* after the gather (lines 1067-1087): the streams and the session are
\* closed, which fails the ws_connect of a _handle_req_proxy task, and the
\* registry and the proxy tables are cleared
CloseEnds ==
    /\ closing \in {"begun", "again", "streams"}
    /\ closing' = IF CloseWs(control_ws).raised THEN "failed" ELSE "done"
    /\ control_ws' = CloseWs(control_ws).ws
    /\ calls' = Orphaned(calls)
    /\ tunnels' = <<>>
    /\ sessions' = SessionClosed(Started(sessions))
    /\ req_proxy_tasks' = 0
    /\ proxy_connections' = {}
    /\ proxy_tasks' = {}
    /\ UNCHANGED <<auth_token, is_connected, connection_status,
                   _reconnect_delay, _reconnecting, _running,
                   pending_requests, configs, stored_token, conn, ctl,
                   heartbeat_tasks, subdomain_tasks, rc, connect_outcome,
                   authLog, authResps, apiLog, sleeps, rereqOf, rereqLog,
                   errLog, lastCall, nextReq, budget, old_streams, probeVars>>

(***************************************************************************)
(* The supervisor with its environment.                                    *)
(***************************************************************************)
Next ==
    \/ UserConnect
    \/ ConnectOpen
    \/ ConnectAuthResp
    \/ ConnectRecvFails
    \/ ConnectRepair
    \/ ConnectReopen
    \/ ConnectAuthResp2
    \/ RcStart
    \/ RcWake
    \/ UserRequestTunnel
    \/ ReqComplete
    \/ ReqTimeout
    \/ GatewaySends
    \/ WsClose
    \/ CtlStart
    \/ CtlHandle
    \/ CtlRecvFails
    \/ HeartbeatEnds
    \/ SubdomainHeartbeatEnds
    \/ CloseBegins
    \/ CloseEnds

Spec == Init /\ [][Next]_vars

(***************************************************************************)
(* Runs in which a re-established control stream fails again.              *)
(***************************************************************************)
InitFlaky ==
    InitClient({OldToken}, {OldToken},
               {Base, Budget(0, MaxDropsFlaky, MaxUserCalls, 0)})

SpecFlaky == InitFlaky /\ [][Next]_vars

(***************************************************************************)
(* Runs in which the liveness Ping of a heartbeat task may fail to be      *)
(* sent.                                                                   *)
(***************************************************************************)
NextHeartbeat ==
    \/ UserConnect
    \/ ConnectOpen
    \/ ConnectAuthResp
    \/ ConnectRecvFails
    \/ ConnectRepair
    \/ ConnectReopen
    \/ ConnectAuthResp2
    \/ RcStart
    \/ RcWake
    \/ UserRequestTunnel
    \/ ReqComplete
    \/ ReqTimeout
    \/ GatewaySends
    \/ WsClose
    \/ CtlStart
    \/ CtlHandle
    \/ CtlRecvFails
    \/ HeartbeatEnds
    \/ HeartbeatSendFails
    \/ SubdomainHeartbeatEnds
    \/ CloseBegins
    \/ CloseEnds

SpecHeartbeat == InitFlaky /\ [][NextHeartbeat]_vars

(***************************************************************************)
(* Runs in which the supervisor reconnects with several tunnels.           *)
(***************************************************************************)
InitTunnels ==
    InitClient({OldToken}, {OldToken},
               {Base, Budget(0, MaxDrops, MaxTunnels, 0)})

SpecTunnels == InitTunnels /\ [][Next]_vars

(***************************************************************************)
(* Runs in which the reconnect attempts fail up to MaxAttempts times.      *)
(***************************************************************************)
InitBackoff ==
    InitClient({OldToken}, {OldToken},
               {Budget(MaxAttempts, MaxDrops, MaxUserCalls, MaxRefusals)})

SpecBackoff == InitBackoff /\ [][Next]_vars

(***************************************************************************)
(* The first connect() of a supervisor, for every token the caller may     *)
(* give and every content of the token store; the stream is not dropped    *)
(* and no tunnel is requested.                                             *)
(***************************************************************************)
InitConnect ==
    InitClient({None, Empty, OldToken}, {None, OldToken},
               {Budget(MaxFails, 0, 0, MaxRefusals)})

NextConnect ==
    \/ UserConnect
    \/ ConnectOpen
    \/ ConnectAuthResp
    \/ ConnectRecvFails
    \/ ConnectRepair
    \/ ConnectReopen
    \/ ConnectAuthResp2
    \/ GatewaySends
    \/ CtlStart
    \/ CtlHandle
    \/ CloseBegins
    \/ CloseEnds

SpecConnect == InitConnect /\ [][NextConnect]_vars

\* the operator may call connect() again once a connect() has ended; the
\* dispatcher that an earlier connect() started is followed only until a
\* later one starts its own
MaxConnects == 2

InitStreams ==
    InitClient({OldToken}, {OldToken},
               {[Budget(MaxFails, 0, 0, MaxRefusals)
                   EXCEPT !.connects = MaxConnects]})

SpecStreams == InitStreams /\ [][NextConnect]_vars

\* an operator that runs two request_tunnel calls at once, and a gateway
\* that also sends replies nobody waits for
MaxParallel == 2
MaxStrays == 1

InitReplies ==
    InitClient({OldToken}, {OldToken},
               {[Budget(0, 0, MaxParallel, 0)
                   EXCEPT !.parallel = MaxParallel, !.strays = MaxStrays]})

NextReplies ==
    \/ UserConnect
    \/ ConnectOpen
    \/ ConnectAuthResp
    \/ UserRequestTunnel
    \/ ReqComplete
    \/ ReqTimeout
    \/ GatewaySends
    \/ CtlStart
    \/ CtlHandle

SpecReplies == InitReplies /\ [][NextReplies]_vars

(***************************************************************************)
(* The supervisor with proxy sessions and an operator who may call close() *)
(* again; no connect() attempt fails and no token is refused.              *)
(***************************************************************************)
InitProxy ==
    InitClient({OldToken}, {OldToken},
               {[fails |-> 0, drops |-> MaxDrops, calls |-> MaxUserCalls,
                 refusals |-> 0, closes |-> MaxCloses,
                 proxies |-> MaxProxies, requests |-> MaxRequests,
                 connects |-> 1, parallel |-> 1, strays |-> 0]})

NextProxy ==
    \/ UserConnect
    \/ ConnectOpen
    \/ ConnectAuthResp
    \/ RcStart
    \/ RcWake
    \/ UserRequestTunnel
    \/ ReqComplete
    \/ ReqTimeout
    \/ GatewaySends
    \/ WsClose
    \/ CtlStart
    \/ CtlHandle
    \/ CtlRecvFails
    \/ HeartbeatEnds
    \/ SubdomainHeartbeatEnds
    \/ HandleReqProxy
    \/ SessionStarts
    \/ SessionStartProxy
    \/ SessionProxy
    \/ SessionEnds
    \/ CloseBegins
    \/ CloseEnds

SpecProxy == InitProxy /\ [][NextProxy]_vars

(***************************************************************************)
(* The same runs in finer steps: close() is followed through its await of  *)
(* control_ws.close(), and a session may get frames before its StartProxy. *)
(***************************************************************************)
NextClose ==
    \/ UserConnect
    \/ ConnectOpen
    \/ ConnectAuthResp
    \/ RcStart
    \/ RcWake
    \/ UserRequestTunnel
    \/ ReqComplete
    \/ ReqTimeout
    \/ GatewaySends
    \/ WsClose
    \/ CtlStart
    \/ CtlHandle
    \/ CtlRecvFails
    \/ HeartbeatEnds
    \/ SubdomainHeartbeatEnds
    \/ HandleReqProxy
    \/ SessionStarts
    \/ SessionSkips
    \/ SessionStartProxy
    \/ SessionProxy
    \/ SessionEnds
    \/ CloseBegins
    \/ CloseControlStream
    \/ CloseEnds

SpecClose == InitProxy /\ [][NextClose]_vars

(***************************************************************************)
(* Runs with several proxy sessions at a time and no close().              *)
(***************************************************************************)
\* the ReqProxy frames of these runs
MaxSessions == 2

InitSessions ==
    InitClient({OldToken}, {OldToken},
               {[fails |-> 0, drops |-> MaxDrops, calls |-> MaxUserCalls,
                 refusals |-> 0, closes |-> 0,
                 proxies |-> MaxSessions, requests |-> MaxRequests,
                 connects |-> 1, parallel |-> 1, strays |-> 0]})

NextSessions ==
    \/ UserConnect
    \/ ConnectOpen
    \/ ConnectAuthResp
    \/ RcStart
    \/ RcWake
    \/ UserRequestTunnel
    \/ ReqComplete
    \/ ReqTimeout
    \/ GatewaySends
    \/ WsClose
    \/ CtlStart
    \/ CtlHandle
    \/ CtlRecvFails
    \/ HeartbeatEnds
    \/ SubdomainHeartbeatEnds
    \/ HandleReqProxy
    \/ SessionStarts
    \/ SessionStartProxy
    \/ SessionProxy
    \/ SessionEnds

SpecSessions == InitSessions /\ [][NextSessions]_vars


(***************************************************************************)
(* Redirect rewriting (lines 757-840).  A URL is a sequence of atoms: a    *)
(* scheme with its "://", the pieces of the authority, then path, query    *)
(* and fragment pieces, which begin with "/", "?" and "#".                 *)
(***************************************************************************)
\* if status_code in [301, 302, 303, 307, 308] (line 758)
RedirectStatuses == {301, 302, 303, 307, 308}

\* the atoms that begin with "/", with "?" and with "#"
SlashAtoms == {"/", "//", "/x", "/dashboard"}
QueryAtoms == {"?y=1"}
FragmentAtoms == {"#top"}

\* key.lower() (line 767)
Lower(key) ==
    CASE key \in {"Location", "location", "LOCATION"} -> "location"
      [] key = "Content-Type" -> "content-type"
      [] key = "X-Location" -> "x-location"
      [] OTHER -> key

\* the first header whose key is "location" in lower case (lines 764-770);
\* 0: there is none
LocationIndex(headers) ==
    LET found == { i \in 1..Len(headers) : Lower(headers[i].key) = "location" }
    IN  IF found = {} THEN 0
        ELSE CHOOSE i \in found : \A j \in found : i <= j

\* location_value.startswith("/") (line 778)
StartsWithSlash(v) == v # <<>> /\ v[1] \in SlashAtoms

\* location_value.startswith("http://localhost") or ... (lines 791-804):
\* a test on the characters, whatever follows them
StartsWithLoopback(v) ==
    /\ Len(v) >= 2
    /\ v[1] \in {"http://", "https://"}
    /\ v[2] \in {"localhost", "127.0.0.1"}

\* the index of the first atom of s that is in K; Len(s) + 1: there is none
FirstIn(s, K) ==
    CHOOSE n \in 1..(Len(s) + 1) :
        /\ \A i \in 1..(n - 1) : s[i] \notin K
        /\ n <= Len(s) => s[n] \in K

\* urlparse (lines 808-812): the authority ends at the first "/", "?" or
\* "#", the fragment begins at the first "#", the query at the first "?"
UrlParse(v) ==
    LET has == v # <<>> /\ v[1] \in {"http://", "https://", "tcp://"}
        rest == IF has THEN Tail(v) ELSE v
        n == IF has
             THEN FirstIn(rest, SlashAtoms \cup QueryAtoms \cup FragmentAtoms)
             ELSE 1
        after == SubSeq(rest, n, Len(rest))
        f == FirstIn(after, FragmentAtoms)
        q == FirstIn(SubSeq(after, 1, f - 1), QueryAtoms)
    IN  [scheme |-> IF has THEN <<v[1]>> ELSE <<>>,
         netloc |-> SubSeq(rest, 1, n - 1),
         path |-> SubSeq(after, 1, q - 1),
         query |-> SubSeq(after, q, f - 1),
         fragment |-> SubSeq(after, f, Len(after))]

\* urlunparse (lines 813-822)
UrlUnparse(u) == u.scheme \o u.netloc \o u.path \o u.query \o u.fragment

\* a base that keeps the slashes at the end of the tunnel URL
BaseUrlKept(url) == url

\* tunnel.url.rstrip("/") (line 781)
BaseUrl(url) ==
    LET n == CHOOSE k \in 0..Len(url) :
                 /\ \A i \in (k + 1)..Len(url) : url[i] = "/"
                 /\ k > 0 => url[k] # "/"
    IN  SubSeq(url, 1, n)

\* the new Location (lines 778-836)
RewriteLocation(value, url) ==
    IF StartsWithSlash(value) THEN BaseUrl(url) \o value
    ELSE IF StartsWithLoopback(value)
    THEN UrlUnparse([UrlParse(value) EXCEPT !.scheme = UrlParse(url).scheme,
                                            !.netloc = UrlParse(url).netloc])
    ELSE value

\* the response headers after lines 757-840
HandleRedirect(status, headers, url) ==
    LET i == LocationIndex(headers)
    IN  IF status \in RedirectStatuses /\ i # 0 /\ headers[i].value # <<>>
        THEN [headers EXCEPT ![i].value = RewriteLocation(@, url)]
        ELSE headers

\* the response goes back as a Proxy frame (lines 842-854)
Respond ==
    /\ exchange.pc = "parsed"
    /\ LET hs == HandleRedirect(exchange.status_code,
                                exchange.response_headers, exchange.url)
       IN  exchange' =
              [exchange EXCEPT
                 !.pc = "sent",
                 !.response_headers = hs,
                 !.sent = Append(@, [status |-> exchange.status_code,
                                     headers |-> hs,
                                     body |-> exchange.response_body])]
    /\ UNCHANGED <<clientVars, taskVars, histVars, req_proxy_tasks,
                   proxy_tasks, proxy_connections, sessions,
                   old_streams, wire,
                   genserver, control_conn>>

(***************************************************************************)
(* Responses of the local service, as parsed, and tunnel URLs.             *)
(***************************************************************************)
LocalStatuses == {200, 300, 301, 302, 303, 304, 307, 308}

LocationValues ==
    { <<"/dashboard">>,
      <<"/x", "?y=1", "#top">>,
      <<"//", "example.com", "/x">>,
      <<"http://", "localhost", ":8080", "/x", "?y=1">>,
      <<"http://", "localhost">>,
      <<"https://", "127.0.0.1", "/x", "#top">>,
      <<"https://", "localhost", ":8080", "?y=1">>,
      <<"http://", "localhost", ".example.com", "/x">>,
      <<"http://", "127.0.0.1", "0", ":8080", "/x">>,
      <<"https://", "example.com", "/x">>,
      <<"https://", "demo", ".retunnel.net", "/x">>,
      <<"x">>,
      <<>> }

ContentType == [key |-> "Content-Type", value |-> <<"text/html">>]

LocalHeaders ==
    { <<ContentType>> }
    \cup { <<ContentType, [key |-> k, value |-> v]>> :
             k \in {"Location", "location", "LOCATION", "X-Location"},
             v \in LocationValues }
    \cup { <<[key |-> k, value |-> v], ContentType>> :
             k \in {"Location", "location"}, v \in LocationValues }

TunnelUrls ==
    { <<"https://", "demo", ".retunnel.net">>,
      <<"https://", "demo", ".retunnel.net", "/">>,
      <<"http://", "localhost", ":6400">>,
      <<"tcp://", "gw", ":1">> }

\* a Proxy request was forwarded and the response of the local service was
\* read and parsed (after line 747)
InitRewrite ==
    /\ InitSupervisor({OldToken}, {OldToken}, {Budget(0, 0, 0, 0)})
    /\ wire = NoWire
    /\ genserver = NoGenServer
    /\ control_conn = NoControlConn
    /\ \E st \in LocalStatuses, hs \in LocalHeaders, url \in TunnelUrls :
         exchange = [pc |-> "parsed", url |-> url,
                     local |-> [status |-> st, headers |-> hs],
                     status_code |-> st, response_headers |-> hs,
                     response_body |-> <<>>, sent |-> <<>>]

NextRewrite ==
    \/ Respond

SpecRewrite == InitRewrite /\ [][NextRewrite]_vars

(***************************************************************************)
(* Reading the response of the local service (lines 685-747).  Bytes are   *)
(* atoms: "CR", "LF", " ", ": " and the words between them; a body byte is *)
(* one atom.                                                               *)
(***************************************************************************)
CRLF == <<"CR", "LF">>

\* the first index at which needle is in hay (bytes.index); 0: nowhere
IndexOf(hay, needle) ==
    LET at == { i \in 1..Len(hay) :
                  /\ i + Len(needle) - 1 <= Len(hay)
                  /\ SubSeq(hay, i, i + Len(needle) - 1) = needle }
    IN  IF at = {} THEN 0 ELSE CHOOSE i \in at : \A j \in at : i <= j

\* s.split(sep): the pieces of s between the occurrences of sep
RECURSIVE Split(_, _)
Split(line, sep) ==
    LET i == IndexOf(line, sep)
    IN  IF i = 0 THEN <<line>>
        ELSE <<SubSeq(line, 1, i - 1)>>
             \o Split(SubSeq(line, i + Len(sep), Len(line)), sep)

\* int(x) of a text: the numbers of the model; every other text raises
Ints ==
    ("0" :> 0) @@ ("1" :> 1) @@ ("2" :> 2) @@ ("3" :> 3) @@ ("200" :> 200)
    @@ ("302" :> 302) @@ ("500" :> 500)

IsInt(x) == Len(x) = 1 /\ x[1] \in DOMAIN Ints

\* response_headers[key] = value (line 723): a dict keeps a key's place
SetHeader(headers, key, value) ==
    IF \E i \in 1..Len(headers) : headers[i].key = key
    THEN [i \in 1..Len(headers) |->
            IF headers[i].key = key THEN [headers[i] EXCEPT !.value = value]
            ELSE headers[i]]
    ELSE Append(headers, [key |-> key, value |-> value])

\* the headers of the lines that have ": " in them (lines 719-723); the
\* header names of the model are one atom, or empty
RECURSIVE ParseHeaders(_, _)
ParseHeaders(lines, headers) ==
    IF lines = <<>> THEN headers
    ELSE LET line == Head(lines)
             i == IndexOf(line, <<": ">>)
         IN  ParseHeaders(
                 Tail(lines),
                 IF i = 0 THEN headers
                 ELSE SetHeader(headers, IF i = 1 THEN "" ELSE line[1],
                                SubSeq(line, i + 1, Len(line))))

\* response_headers.get("Content-Length") (lines 729-731); <<>>: None
GetContentLength(headers) ==
    LET at == { i \in 1..Len(headers) : headers[i].key = "Content-Length" }
    IN  IF at = {} THEN <<>> ELSE headers[CHOOSE i \in at : TRUE].value

\* lines 702-733 on the data read so far, which has the header terminator:
\* ok = FALSE when int() or the index [1] raises
ParseResponse(data) ==
    LET header_end == IndexOf(data, CRLF \o CRLF)
        lines == Split(SubSeq(data, 1, header_end - 1), CRLF)
        status_parts == Split(lines[1], <<" ">>)
        headers == ParseHeaders(Tail(lines), <<>>)
        content_length == GetContentLength(headers)
        body == SubSeq(data, header_end + 4, Len(data))
    IN  IF Len(status_parts) < 2 \/ ~IsInt(status_parts[2])
        THEN [ok |-> FALSE]
        ELSE IF content_length # <<>> /\ ~IsInt(content_length)
        THEN [ok |-> FALSE]
        ELSE [ok |-> TRUE,
              status_code |-> Ints[status_parts[2][1]],
              response_headers |-> headers,
              response_body |-> body,
              expected_length |-> IF content_length = <<>> THEN 0
                                  ELSE Ints[content_length[1]]]

\* one local_reader.read(8192) returns (lines 692-699 and 738-745): the
\* next bytes that arrived, or nothing when the local service has closed
LocalRead ==
    /\ exchange.pc \in {"reading", "body"}
    /\ LET chunk == IF exchange.reads = <<>> THEN <<>>
                    ELSE Head(exchange.reads)
           left == IF exchange.reads = <<>> THEN <<>>
                   ELSE Tail(exchange.reads)
           data == exchange.response_data \o chunk
           body == exchange.response_body \o chunk
       IN  exchange' =
             IF chunk = <<>>
             THEN [exchange EXCEPT !.pc = "parsed"]
             ELSE IF exchange.pc = "body"
             THEN [exchange EXCEPT
                     !.reads = left,
                     !.response_body = body,
                     !.pc = IF Len(body) < exchange.expected_length
                            THEN "body" ELSE "parsed"]
             ELSE IF IndexOf(data, CRLF \o CRLF) = 0
             THEN [exchange EXCEPT !.reads = left, !.response_data = data]
             ELSE LET r == ParseResponse(data)
                  IN  IF ~r.ok
                      THEN \* the except clause of lines 862-865
                           [exchange EXCEPT !.reads = left,
                                            !.response_data = data,
                                            !.pc = "dropped"]
                      ELSE [exchange EXCEPT
                              !.reads = left,
                              !.response_data = data,
                              !.status_code = r.status_code,
                              !.response_headers = r.response_headers,
                              !.response_body = r.response_body,
                              !.expected_length = r.expected_length,
                              !.pc = IF Len(r.response_body) < r.expected_length
                                     THEN "body" ELSE "parsed"]
    /\ UNCHANGED <<clientVars, taskVars, histVars, req_proxy_tasks,
                   proxy_tasks, proxy_connections, sessions,
                   old_streams, wire,
                   genserver, control_conn>>

(***************************************************************************)
(* What the local service answers, and how TCP cuts it into reads.         *)
(***************************************************************************)
StatusLine(code) == <<"HTTP/1.1", " ", code, " ", "OK">> \o CRLF

HeaderLine(key, value) == <<key, ": ">> \o value \o CRLF

LocalResponses ==
    { StatusLine("200") \o HeaderLine("Content-Length", <<"2">>) \o CRLF
          \o <<"a", "b">>,
      StatusLine("200") \o HeaderLine("Content-Type", <<"text/html">>) \o CRLF
          \o <<"a", "b">>,
      StatusLine("200") \o HeaderLine("Content-Length", <<"1">>) \o CRLF
          \o <<"a", "b">>,
      StatusLine("200") \o HeaderLine("Content-Length", <<"3">>) \o CRLF
          \o <<"a", "b">>,
      StatusLine("302") \o HeaderLine("Location", <<"/dashboard">>)
          \o HeaderLine("Content-Length", <<"0">>) \o CRLF,
      StatusLine("200") \o <<"a">>,
      <<"garbage">> \o CRLF \o CRLF \o <<"a">>,
      <<"HTTP/1.1", " ", "OK">> \o CRLF \o CRLF,
      StatusLine("200") \o HeaderLine("Content-Length", <<"x">>) \o CRLF
          \o <<"a">>,
      <<>> }

\* the ways to cut s into at most k reads, none of them empty
RECURSIVE Splits(_, _)
Splits(stream, k) ==
    IF stream = <<>> THEN {<<>>}
    ELSE IF k = 1 THEN {<<stream>>}
    ELSE {<<stream>>}
         \cup UNION { { <<SubSeq(stream, 1, i)>> \o rest :
                          rest \in Splits(SubSeq(stream, i + 1, Len(stream)),
                                          k - 1) } :
                      i \in 1..(Len(stream) - 1) }

\* a Proxy request was written to the local service (lines 673-689)
InitLocal ==
    /\ InitSupervisor({OldToken}, {OldToken}, {Budget(0, 0, 0, 0)})
    /\ wire = NoWire
    /\ genserver = NoGenServer
    /\ control_conn = NoControlConn
    /\ \E stream \in LocalResponses :
         \E reads \in Splits(stream, MaxReads) :
            exchange = [pc |-> "reading",
                        url |-> <<"https://", "demo", ".retunnel.net">>,
                        local |-> stream, reads |-> reads,
                        response_data |-> <<>>, status_code |-> 500,
                        response_headers |-> <<>>, response_body |-> <<>>,
                        expected_length |-> 0, sent |-> <<>>]

NextLocal ==
    \/ LocalRead
    \/ Respond

SpecLocal == InitLocal /\ [][NextLocal]_vars

(***************************************************************************)
(* The frame codec: _send_message and _receive_message.                    *)
(*                                                                         *)
(* A value of a frame is a record [t, v]: t its Python type and v its      *)
(* content as a sequence (the characters of a str, the bytes of a bytes,   *)
(* the one number of an int or bool, the <<key, value>> pairs of a dict in *)
(* insertion order).  Bytes on the wire are numbers 0..255.                *)
(***************************************************************************)
Nil == [t |-> "nil", v |-> <<>>]
Bool(b) == [t |-> "bool", v |-> <<IF b THEN 1 ELSE 0>>]
Int(n) == [t |-> "int", v |-> <<n>>]
Str(s) == [t |-> "str", v |-> s]
Bytes(bs) == [t |-> "bin", v |-> bs]
Dict(pairs) == [t |-> "map", v |-> pairs]

\* the UTF-8 code of the characters the frames of the model are made of
Ascii ==
    "A" :> 65 @@ "D" :> 68 @@ "I" :> 73 @@ "P" :> 80 @@ "R" :> 82
    @@ "T" :> 84 @@ "a" :> 97 @@ "d" :> 100 @@ "e" :> 101 @@ "g" :> 103
    @@ "h" :> 104 @@ "i" :> 105 @@ "n" :> 110 @@ "o" :> 111 @@ "p" :> 112
    @@ "q" :> 113 @@ "r" :> 114 @@ "t" :> 116 @@ "u" :> 117 @@ "x" :> 120
    @@ "y" :> 121 @@ "1" :> 49

Utf8Encode(s) == [i \in 1..Len(s) |-> Ascii[s[i]]]

Utf8Decode(bs) ==
    [i \in 1..Len(bs) |-> CHOOSE c \in DOMAIN Ascii : Ascii[c] = bs[i]]

\* struct.pack(">Q", n), for n below 2^31
PackQ(n) ==
    [i \in 1..8 |-> IF i <= 4 THEN 0 ELSE (n \div (256 ^ (8 - i))) % 256]

RECURSIVE Packb(_)
RECURSIVE PackPairs(_)
\* the entries of a dict, each key followed by its value
PackPairs(pairs) ==
    IF pairs = <<>> THEN <<>>
    ELSE Packb(Head(pairs)[1]) \o Packb(Head(pairs)[2])
         \o PackPairs(Tail(pairs))

\* msgpack.packb(x, use_bin_type=True) (line 466): nil, false and true,
\* positive fixint, uint 8 and uint 16, fixstr and str 8, bin 8, fixmap
Packb(x) ==
    CASE x.t = "nil" -> <<192>>
      [] x.t = "bool" -> <<IF x.v[1] = 1 THEN 195 ELSE 194>>
      [] x.t = "int" ->
            IF x.v[1] < 128 THEN <<x.v[1]>>
            ELSE IF x.v[1] < 256 THEN <<204, x.v[1]>>
            ELSE <<205, x.v[1] \div 256, x.v[1] % 256>>
      [] x.t = "str" ->
            (IF Len(x.v) < 32 THEN <<160 + Len(x.v)>>
             ELSE <<217, Len(x.v)>>) \o Utf8Encode(x.v)
      [] x.t = "bin" -> <<196, Len(x.v)>> \o x.v
      [] x.t = "map" -> <<128 + Len(x.v)>> \o PackPairs(x.v)

Truncated == [ok |-> FALSE, v |-> Nil, next |-> 0]

RECURSIVE Unpack(_, _)
RECURSIVE UnpackPairs(_, _, _, _)
\* n more entries of a dict are read from position i on
UnpackPairs(data, i, n, pairs) ==
    IF n = 0 THEN [ok |-> TRUE, v |-> Dict(pairs), next |-> i]
    ELSE LET key == Unpack(data, i)
         IN  IF ~key.ok THEN Truncated
             ELSE LET value == Unpack(data, key.next)
                  IN  IF ~value.ok THEN Truncated
                      ELSE UnpackPairs(data, value.next, n - 1,
                                       Append(pairs, <<key.v, value.v>>))

\* one object is read from position i on: its value and the position
\* after it, or a failure when the bytes end early or the first byte is
\* of no format above
Unpack(data, i) ==
    LET b == data[i]
        Take(from, n, make(_)) ==
            IF from + n - 1 > Len(data) THEN Truncated
            ELSE [ok |-> TRUE, v |-> make(SubSeq(data, from, from + n - 1)),
                  next |-> from + n]
        AsStr(bs) == Str(Utf8Decode(bs))
        AsBytes(bs) == Bytes(bs)
        AsInt8(bs) == Int(bs[1])
        AsInt16(bs) == Int(bs[1] * 256 + bs[2])
    IN  IF i > Len(data) THEN Truncated
        ELSE IF b < 128 THEN [ok |-> TRUE, v |-> Int(b), next |-> i + 1]
        ELSE IF b < 144 THEN UnpackPairs(data, i + 1, b - 128, <<>>)
        ELSE IF b \in 160..191 THEN Take(i + 1, b - 160, AsStr)
        ELSE IF b = 192 THEN [ok |-> TRUE, v |-> Nil, next |-> i + 1]
        ELSE IF b \in {194, 195}
             THEN [ok |-> TRUE, v |-> Bool(b = 195), next |-> i + 1]
        ELSE IF b \in {196, 217} /\ i + 1 > Len(data) THEN Truncated
        ELSE IF b = 196 THEN Take(i + 2, data[i + 1], AsBytes)
        ELSE IF b = 217 THEN Take(i + 2, data[i + 1], AsStr)
        ELSE IF b = 204 THEN Take(i + 1, 1, AsInt8)
        ELSE IF b = 205 THEN Take(i + 1, 2, AsInt16)
        ELSE Truncated

\* msgpack.unpackb(data, raw=False) (line 494): one object and nothing
\* after it, an exception otherwise
Unpackb(data) ==
    LET r == Unpack(data, 1)
    IN  IF r.ok /\ r.next = Len(data) + 1
        THEN [ok |-> TRUE, v |-> r.v]
        ELSE [ok |-> FALSE, v |-> Nil]

\* every message of at least 8 bytes loses its first 8 bytes
StripAlways(data) ==
    IF Len(data) >= 8 THEN SubSeq(data, 9, Len(data)) ELSE data

\* lines 482-491: the first 8 bytes go when, read as a big-endian
\* unsigned number, they are the length of what follows them; the
\* number is compared through its 8 bytes, which name it uniquely
Strip(data) ==
    IF Len(data) >= 8 /\ SubSeq(data, 1, 8) = PackQ(Len(data) - 8)
    THEN SubSeq(data, 9, Len(data))
    ELSE data

\* _send_message (lines 461-472): the packed frame after its length
SendMessage ==
    /\ wire.pc = "ready"
    /\ LET data == Packb(wire.frame)
       IN  wire' = [wire EXCEPT !.pc = "written", !.by = "client",
                                !.prefixed = TRUE,
                                !.data = PackQ(Len(data)) \o data]
    /\ UNCHANGED <<clientVars, taskVars, histVars, req_proxy_tasks,
                   proxy_tasks, proxy_connections, sessions,
                   old_streams, exchange,
                   genserver, control_conn>>

\* the peer writes a frame as one binary message, after its length or
\* bare (what ws.receive() of line 478 can return)
PeerWrites ==
    /\ wire.pc = "ready"
    /\ \E prefixed \in BOOLEAN :
         LET data == Packb(wire.frame)
         IN  wire' = [wire EXCEPT
                        !.pc = "written", !.by = "peer",
                        !.prefixed = prefixed,
                        !.data = IF prefixed THEN PackQ(Len(data)) \o data
                                 ELSE data]
    /\ UNCHANGED <<clientVars, taskVars, histVars, req_proxy_tasks,
                   proxy_tasks, proxy_connections, sessions,
                   old_streams, exchange,
                   genserver, control_conn>>

\* _receive_message (lines 474-505) on a binary message
ReceiveMessage ==
    /\ wire.pc = "written"
    /\ LET data == Strip(wire.data)
       IN  wire' = [wire EXCEPT !.pc = "received",
                                !.stripped = (data # wire.data),
                                !.got = Unpackb(data)]
    /\ UNCHANGED <<clientVars, taskVars, histVars, req_proxy_tasks,
                   proxy_tasks, proxy_connections, sessions,
                   old_streams, exchange,
                   genserver, control_conn>>

\* frames of the protocol: a Type tag, then fields of every kind of value
FrameTypes == {<<"P", "i", "n", "g">>, <<"A", "u", "t", "h">>,
               <<"P", "r", "o", "x", "y">>, <<"R", "e", "q">>}

FrameIds == {<<>>, <<"r", "1">>}

FrameData ==
    { Nil, Bool(TRUE), Bool(FALSE), Int(0), Int(200), Int(8080),
      Str(<<>>), Str(<<"a">>), Bytes(<<>>), Bytes(<<0, 0, 0, 0, 0, 0, 0, 3>>),
      Bytes(<<255, 0, 13, 10>>),
      Dict(<<>>),
      Dict(<< <<Str(<<"h">>), Str(<<"a", "a">>)>>,
              <<Str(<<"n">>), Int(1)>> >>) }

Frames ==
    { Dict(<< <<Str(<<"T", "y", "p", "e">>), Str(type)>> >> \o fields) :
        type \in FrameTypes,
        fields \in
            {<<>>}
            \cup { << <<Str(<<"I", "d">>), Str(id)>> >> : id \in FrameIds }
            \cup { << <<Str(<<"D", "a", "t", "a">>), d>> >> : d \in FrameData }
            \cup { << <<Str(<<"I", "d">>), Str(id)>>,
                      <<Str(<<"D", "a", "t", "a">>), d>> >> :
                     id \in FrameIds, d \in FrameData } }

InitWire ==
    /\ InitSupervisor({OldToken}, {OldToken}, {Budget(0, 0, 0, 0)})
    /\ exchange = NoExchange
    /\ genserver = NoGenServer
    /\ control_conn = NoControlConn
    /\ \E f \in Frames :
         wire = [pc |-> "ready", frame |-> f, by |-> "", data |-> <<>>,
                 prefixed |-> FALSE, stripped |-> FALSE,
                 got |-> [ok |-> FALSE, v |-> Nil]]

NextWire ==
    \/ SendMessage
    \/ PeerWrites
    \/ ReceiveMessage

SpecWire == InitWire /\ [][NextWire]_vars

(***************************************************************************)
(* The reader task of WebSocketConnection (core/connection.py).            *)
(***************************************************************************)
MaxMessages == 3

\* stands for every length from 2^31 on: more than any run delivers
Beyond == 2147483647

\* struct.unpack(">Q", bs)[0], the numbers from 2^31 on as Beyond
UnpackQ(bs) ==
    IF (\E i \in 1..4 : bs[i] # 0) \/ bs[5] >= 128
    THEN Beyond
    ELSE bs[5] * (256 ^ 3) + bs[6] * (256 ^ 2) + bs[7] * 256 + bs[8]

\* the size the interface recommends as the cap on a frame: 16 MiB
SizeCap == 16 * 1024 * 1024

\* deserialize_message(data): the message, or an exception
DeserializeMessage(data) == Unpackb(data)

\* lines 69-75: the first msg_length bytes are decoded and queued; a
\* decoding error is printed
Queued(queue, msg_data, msg_length) ==
    LET message == DeserializeMessage(SubSeq(msg_data, 1, msg_length))
    IN  IF message.ok THEN Append(queue, message.v) ELSE queue

\* lines 64-75, once the while condition is evaluated on msg_data
Accumulated(msg_data, msg_length) ==
    IF Len(msg_data) < msg_length
    THEN [wire EXCEPT !.pc = "more", !.incoming = Tail(@),
                      !.msg_length = msg_length, !.msg_data = msg_data]
    ELSE [wire EXCEPT !.pc = "recv", !.incoming = Tail(@),
                      !.msg_length = msg_length, !.msg_data = msg_data,
                      !.queue = Queued(@, msg_data, msg_length)]

\* self._ws.recv() of line 51 returns a message (lines 49-75)
ReaderRecv ==
    /\ wire.pc = "recv"
    /\ wire.incoming # <<>>
    /\ LET length_data == Head(wire.incoming)
       IN  wire' = IF Len(length_data) < 8
                   THEN [wire EXCEPT !.incoming = Tail(@)]
                   ELSE Accumulated(SubSeq(length_data, 9, Len(length_data)),
                                    UnpackQ(SubSeq(length_data, 1, 8)))
    /\ UNCHANGED <<clientVars, taskVars, histVars, req_proxy_tasks,
                   proxy_tasks, proxy_connections, sessions,
                   old_streams, exchange,
                   genserver, control_conn>>

\* self._ws.recv() of line 65 returns a message (lines 64-75)
ReaderRecvMore ==
    /\ wire.pc = "more"
    /\ wire.incoming # <<>>
    /\ wire' = Accumulated(wire.msg_data \o Head(wire.incoming),
                           wire.msg_length)
    /\ UNCHANGED <<clientVars, taskVars, histVars, req_proxy_tasks,
                   proxy_tasks, proxy_connections, sessions,
                   old_streams, exchange,
                   genserver, control_conn>>

\* the peer has closed: recv raises ConnectionClosed (lines 77-78)
ReaderClosed ==
    /\ wire.pc \in {"recv", "more"}
    /\ wire.incoming = <<>>
    /\ wire' = [wire EXCEPT !.pc = "closed", !._closed = TRUE]
    /\ UNCHANGED <<clientVars, taskVars, histVars, req_proxy_tasks,
                   proxy_tasks, proxy_connections, sessions,
                   old_streams, exchange,
                   genserver, control_conn>>

PingFrame == Dict(<< <<Str(<<"T", "y", "p", "e">>), Str(<<"P", "i", "n", "g">>)>> >>)

\* messages the peer writes: a whole frame, its length and its payload
\* apart, a length above the cap alone and with a payload, a fragment
PeerMessages ==
    LET data == Packb(PingFrame)
    IN  { PackQ(Len(data)) \o data,
          PackQ(Len(data)),
          data,
          PackQ(SizeCap + 1),
          PackQ(SizeCap + 1) \o data,
          <<1, 2, 3>> }

RECURSIVE SeqsUpTo(_, _)
SeqsUpTo(S, n) ==
    IF n = 0 THEN {<<>>}
    ELSE LET shorter == SeqsUpTo(S, n - 1)
         IN  shorter \cup { Append(s, x) : s \in shorter, x \in S }

InitReader ==
    /\ InitSupervisor({OldToken}, {OldToken}, {Budget(0, 0, 0, 0)})
    /\ exchange = NoExchange
    /\ genserver = NoGenServer
    /\ control_conn = NoControlConn
    /\ \E incoming \in SeqsUpTo(PeerMessages, MaxMessages) :
         wire = [pc |-> "recv", incoming |-> incoming, msg_length |-> 0,
                 msg_data |-> <<>>, queue |-> <<>>, _closed |-> FALSE,
                 error |-> ""]

NextReader ==
    \/ ReaderRecv
    \/ ReaderRecvMore
    \/ ReaderClosed

SpecReader == InitReader /\ [][NextReader]_vars

(***************************************************************************)
(* The same reader on frames that send (lines 83-96) wrote, their bytes    *)
(* cut into transport chunks at any places.                                *)
(***************************************************************************)
\* the frames sent in a run, and the chunks their bytes arrive in
MaxFrames == 2
MaxChunks == 3

\* two small messages: an empty map and a map of one entry
ChunkFrames == { Dict(<<>>), Dict(<< <<Str(<<"T">>), Int(1)>> >>) }

RECURSIVE Stream(_)
\* what send writes for each frame, one after the other: the length
\* prefix, then the serialized message (lines 90-94)
Stream(frames) ==
    IF frames = <<>> THEN <<>>
    ELSE LET msg_data == Packb(Head(frames))
         IN  PackQ(Len(msg_data)) \o msg_data \o Stream(Tail(frames))

\* the chunks of `bytes` cut after the positions of `cuts`
Chunked(bytes, cuts) ==
    LET ends == cuts \cup {Len(bytes)}
        Start(e) == IF \E c \in cuts : c < e
                    THEN 1 + CHOOSE c \in cuts :
                               c < e /\ \A d \in cuts : d < e => d <= c
                    ELSE 1
        Nth(k) == CHOOSE e \in ends : Cardinality({d \in ends : d <= e}) = k
    IN  [k \in 1..Cardinality(ends) |->
            SubSeq(bytes, Start(Nth(k)), Nth(k))]

InitChunks ==
    /\ InitSupervisor({OldToken}, {OldToken}, {Budget(0, 0, 0, 0)})
    /\ exchange = NoExchange
    /\ genserver = NoGenServer
    /\ control_conn = NoControlConn
    /\ \E frames \in SeqsUpTo(ChunkFrames, MaxFrames) \ {<<>>} :
         \E cuts \in SUBSET (1..(Len(Stream(frames)) - 1)) :
            /\ Cardinality(cuts) < MaxChunks
            /\ wire = [pc |-> "recv",
                       incoming |-> Chunked(Stream(frames), cuts),
                       msg_length |-> 0, msg_data |-> <<>>, queue |-> <<>>,
                       _closed |-> FALSE, error |-> "", sent |-> frames]

SpecChunks == InitChunks /\ [][NextReader]_vars

(***************************************************************************)
(* The tunnel a proxy session picks for its StartProxy (lines 603-632) and *)
(* counts its traffic on, for registries whose public ids are text: a      *)
(* sequence of characters.                                                 *)
(***************************************************************************)
\* the tunnels of a registry
MaxRegistry == 2

\* the public URL of the tunnel with the subdomain label `label`
PublicUrl(label) == <<"https://">> \o label \o <<".retunnel.net">>

\* the Tunnel objects request_tunnel makes (lines 429-449): the id is the
\* TunnelId or else the Subdomain of the reply, which names the URL's
\* label, or it is empty when the reply carries neither
RegistryEntries ==
    { [tunnel_id |-> label, url |-> PublicUrl(label)] :
         label \in { <<"a">>, <<"a", "b">>, <<"b">> } }
    \cup { [tunnel_id |-> <<>>, url |-> PublicUrl(<<"c">>)] }

\* the registries: self.tunnels in the order of insertion, one entry for
\* an id (line 449); each has its own object, local port and counters
Registries ==
    { [i \in 1..Len(es) |->
          [id |-> es[i].tunnel_id, tunnel_id |-> es[i].tunnel_id,
           url |-> es[i].url, obj |-> i, local_port |-> 8000 + i,
           bytes_in |-> 0, bytes_out |-> 0]] :
        es \in { e \in SeqsUpTo(RegistryEntries, MaxRegistry) \ {<<>>} :
                   \A i, j \in 1..Len(e) :
                      i # j => e[i].tunnel_id # e[j].tunnel_id } }

\* the first tunnel of the registry whose tunnel_id is not empty and is in
\* the url (lines 608-612); 0: none
FindTunnelText(reg, url) ==
    LET found == { i \in 1..Len(reg) :
                     /\ reg[i].tunnel_id # <<>>
                     /\ Contains(url, reg[i].tunnel_id) }
    IN  IF found = {} THEN 0
        ELSE CHOOSE i \in found : \A j \in found : i <= j

\* the StartProxy frame of a session (lines 603-632): the tunnel is looked
\* up and the local service of its port is connected, or the session ends
LookupStartProxy ==
    /\ exchange.pc = "start"
    /\ LET t == FindTunnelText(exchange.registry, exchange.url)
       IN  exchange' =
             IF t = 0
             THEN [exchange EXCEPT !.pc = "ended"]
             ELSE [exchange EXCEPT !.pc = "proxy", !.obj = t,
                       !.port = exchange.registry[t].local_port]
    /\ UNCHANGED <<clientVars, taskVars, histVars, req_proxy_tasks,
                   proxy_tasks, proxy_connections, sessions,
                   old_streams, wire, genserver, control_conn>>

\* a Proxy frame (lines 634-865): the traffic is counted on the tunnel the
\* session holds
LookupProxy ==
    /\ exchange.pc = "proxy"
    /\ \E t \in ProxyTraffic :
         exchange' = [exchange EXCEPT
                        !.pc = "counted",
                        !.registry = Counted(@, exchange.obj, t.in, t.out)]
    /\ UNCHANGED <<clientVars, taskVars, histVars, req_proxy_tasks,
                   proxy_tasks, proxy_connections, sessions,
                   old_streams, wire, genserver, control_conn>>

\* a public request for the tunnel `target` of a registry: the gateway
\* sends its public URL with the path of the request
InitLookup ==
    /\ InitSupervisor({OldToken}, {OldToken}, {Budget(0, 0, 0, 0)})
    /\ wire = NoWire
    /\ genserver = NoGenServer
    /\ control_conn = NoControlConn
    /\ \E reg \in Registries :
         \E target \in 1..Len(reg) :
            \E path \in { <<"/">>, <<"/", "a">> } :
               exchange = [pc |-> "start", registry |-> reg,
                           target |-> target,
                           url |-> reg[target].url \o path,
                           obj |-> 0, port |-> 0]

NextLookup ==
    \/ LookupStartProxy
    \/ LookupProxy

SpecLookup == InitLookup /\ [][NextLookup]_vars

(***************************************************************************)
(* GenServer (genserver/core.py), subclassed as the servers of             *)
(* tests/test_genserver.py: a counter whose handlers can raise.            *)
(*                                                                         *)
(* Two threads: the caller of start, stop, cast and call, and the thread   *)
(* of _loop.  A step is what one thread does between two accesses to what  *)
(* they share.  The state is <<>> for None and <<n>> for the count n.      *)
(***************************************************************************)
MaxStarts == 2
MaxSends == 3

CastActions == {"increment", "decrement", "error_cast"}
CallActions == {"get_count", "increment_and_get", "error_call"}

StopCommand == [kind |-> "stop", action |-> "stop", id |-> 0]
CastMessage(action) == [kind |-> "cast", action |-> action, id |-> 0]
CallMessage(action, id) == [kind |-> "call", action |-> action, id |-> id]

\* what a call can hand back: a value, or a GenServerError object
Value(n) == [error |-> FALSE, value |-> n]
GenServerErrorValue == [error |-> TRUE, value |-> 0]

\* how a call of the caller ended
Raised(op, what) ==
    [op |-> op, result |-> what, response |-> GenServerErrorValue]
Returned(op) ==
    [op |-> op, result |-> "returned", response |-> GenServerErrorValue]
Answered(response) ==
    [op |-> "call", result |-> "returned", response |-> response]

\* handle_cast of the test servers (test_genserver.py lines 15-22,
\* 139-142): the next state, or an exception
HandleCast(action, state) ==
    CASE action = "increment" -> [raised |-> FALSE, state |-> <<state[1] + 1>>]
      [] action = "decrement" -> [raised |-> FALSE, state |-> <<state[1] - 1>>]
      [] OTHER -> [raised |-> TRUE, state |-> state]

\* handle_call of the test servers (lines 24-32, 143-146): the response
\* and the next state, or an exception
HandleCall(action, state) ==
    CASE action = "get_count" ->
            [raised |-> FALSE, response |-> Value(state[1]), state |-> state]
      [] action = "increment_and_get" ->
            [raised |-> FALSE, response |-> Value(state[1] + 1),
             state |-> <<state[1] + 1>>]
      [] OTHER ->
            [raised |-> TRUE, response |-> GenServerErrorValue,
             state |-> state]

GenServerFrame ==
    UNCHANGED <<clientVars, taskVars, histVars, req_proxy_tasks, proxy_tasks,
                proxy_connections, sessions,
                   old_streams, exchange, wire,
                   control_conn>>

CallerIdle == genserver.pc = "made" /\ genserver.caller = "idle"

\* start() (lines 66-71)
GenServerStart ==
    /\ CallerIdle
    /\ genserver.starts < MaxStarts
    /\ genserver' =
          IF genserver._running
          THEN [genserver EXCEPT !.starts = @ + 1,
                                 !.last = Raised("start", "GenServerError")]
          ELSE [genserver EXCEPT !.starts = @ + 1,
                                 !._running = TRUE,
                                 !._thread = "init",
                                 !.terminated = 0,
                                 !.last = Returned("start")]
    /\ GenServerFrame

\* stop() up to its join (lines 87-91)
GenServerStop ==
    /\ CallerIdle
    /\ genserver.stops < MaxStarts
    /\ genserver' =
          IF ~genserver._running
          THEN [genserver EXCEPT !.stops = @ + 1,
                                 !.last = Raised("stop", "GenServerError")]
          ELSE [genserver EXCEPT !.stops = @ + 1,
                                 !._running = FALSE,
                                 !._mailbox = Append(@, StopCommand),
                                 !.log = Append(@, StopCommand),
                                 !.caller = "joining"]
    /\ GenServerFrame

\* the join of stop() returns: the thread is over (lines 91-93)
GenServerStopReturns ==
    /\ genserver.pc = "made"
    /\ genserver.caller = "joining"
    /\ genserver._thread = "dead"
    /\ genserver' = [genserver EXCEPT !.caller = "idle",
                                      !.last = Returned("stop")]
    /\ GenServerFrame

\* cast(message) (lines 108-112)
GenServerCast ==
    /\ CallerIdle
    /\ genserver.sends < MaxSends
    /\ \E action \in CastActions :
         genserver' =
            IF ~genserver._running
            THEN [genserver EXCEPT !.sends = @ + 1,
                                   !.last = Raised("cast", "GenServerError")]
            ELSE [genserver EXCEPT !.sends = @ + 1,
                                   !._mailbox = Append(@, CastMessage(action)),
                                   !.log = Append(@, CastMessage(action)),
                                   !.last = Returned("cast")]
    /\ GenServerFrame

\* call(message, timeout) up to its wait for the response (lines 132-144);
\* the correlation id is new
GenServerCall ==
    /\ CallerIdle
    /\ genserver.sends < MaxSends
    /\ \E action \in CallActions, timeout \in BOOLEAN :
         LET correlation_id == Len(genserver.log) + 1
             call_message == CallMessage(action, correlation_id)
         IN  genserver' =
                IF ~genserver._running
                THEN [genserver EXCEPT
                        !.sends = @ + 1,
                        !.last = Raised("call", "GenServerError")]
                ELSE [genserver EXCEPT
                        !.sends = @ + 1,
                        !._reply_queues = (correlation_id :> <<>>) @@ @,
                        !._mailbox = Append(@, call_message),
                        !.log = Append(@, call_message),
                        !.caller = "waiting",
                        !.correlation_id = correlation_id,
                        !.timeout = timeout]
    /\ GenServerFrame

\* d without the key k
Del(d, k) == [j \in DOMAIN d \ {k} |-> d[j]]

\* reply_queue.get returns the response (lines 144-145, 149-151)
GenServerCallReturns ==
    /\ genserver.pc = "made"
    /\ genserver.caller = "waiting"
    /\ LET correlation_id == genserver.correlation_id
           reply_queue == genserver._reply_queues[correlation_id]
       IN  /\ reply_queue # <<>>
           /\ genserver' =
                 [genserver EXCEPT
                    !.caller = "idle",
                    !._reply_queues = Del(@, correlation_id),
                    !.last = Answered(Head(reply_queue))]
    /\ GenServerFrame

\* reply_queue.get times out (lines 146-148)
GenServerCallTimeout ==
    /\ genserver.pc = "made"
    /\ genserver.caller = "waiting"
    /\ genserver.timeout
    /\ genserver._reply_queues[genserver.correlation_id] = <<>>
    /\ genserver' =
          [genserver EXCEPT
             !.caller = "idle",
             !._reply_queues = Del(@, genserver.correlation_id),
             !.last = Raised("call", "GenServerTimeoutError")]
    /\ GenServerFrame

\* the thread ends and the server goes on as running
InitFailedStillRunning(gs) == [gs EXCEPT !._thread = "dead"]

\* init raised (lines 183-186)
InitFailed(gs) == [gs EXCEPT !._running = FALSE, !._thread = "dead"]

\* _loop calls init (lines 181-186); the messages that wait in the mailbox
\* are the first ones the new state will see
LoopInit ==
    /\ genserver.pc = "made"
    /\ genserver._thread = "init"
    /\ genserver' =
          IF genserver.init_raises
          THEN InitFailed(genserver)
          ELSE [genserver EXCEPT
                  !._current_state = <<0>>,
                  !._thread = "while",
                  !.epoch = Len(genserver.log) - Len(genserver._mailbox)]
    /\ GenServerFrame

\* the thread ends through terminate (lines 232-235)
Terminated(gs) == [gs EXCEPT !._thread = "dead", !.terminated = @ + 1]

\* `while self._running` (line 188)
LoopWhile ==
    /\ genserver.pc = "made"
    /\ genserver._thread = "while"
    /\ genserver' = IF genserver._running
                    THEN [genserver EXCEPT !._thread = "get"]
                    ELSE Terminated(genserver)
    /\ GenServerFrame

\* _reply (lines 163-168)
Reply(reply_queues, correlation_id, response) ==
    IF correlation_id \in DOMAIN reply_queues
    THEN [reply_queues EXCEPT ![correlation_id] = Append(@, response)]
    ELSE reply_queues

\* the newest message is taken where the oldest should be
GetNewest(mailbox) ==
    [msg |-> mailbox[Len(mailbox)],
     rest |-> SubSeq(mailbox, 1, Len(mailbox) - 1)]

\* queue.Queue.get (line 190): the oldest message and the others
Get(mailbox) == [msg |-> Head(mailbox), rest |-> Tail(mailbox)]

\* self._mailbox.get returns a message and the message is handled
\* (lines 190-221)
LoopGet ==
    /\ genserver.pc = "made"
    /\ genserver._thread = "get"
    /\ genserver._mailbox # <<>>
    /\ LET got == Get(genserver._mailbox)
           msg == got.msg
           state == genserver._current_state
           cast == HandleCast(msg.action, state)
           call == HandleCall(msg.action, state)
       IN  genserver' =
              CASE msg.kind = "stop" ->
                     Terminated([genserver EXCEPT !._mailbox = got.rest,
                                                  !._running = FALSE])
                [] msg.kind = "cast" ->
                     [genserver EXCEPT
                        !._mailbox = got.rest,
                        !._thread = "while",
                        !._current_state =
                            IF cast.raised THEN state
                            ELSE cast.state,
                        !.handled = msg]
                [] msg.kind = "call" ->
                     [genserver EXCEPT
                        !._mailbox = got.rest,
                        !._thread = "while",
                        !._current_state =
                            IF call.raised THEN state
                            ELSE call.state,
                        !._reply_queues =
                            Reply(@, msg.id, call.response),
                        !.handled = msg]
    /\ GenServerFrame

\* self._mailbox.get times out on an empty mailbox (lines 224-225)
LoopEmpty ==
    /\ genserver.pc = "made"
    /\ genserver._thread = "get"
    /\ genserver._mailbox = <<>>
    /\ genserver' = [genserver EXCEPT !._thread = "while"]
    /\ GenServerFrame

\* __init__ (lines 46-50) of a server whose init raises or not
InitGenServer ==
    /\ InitSupervisor({OldToken}, {OldToken}, {Budget(0, 0, 0, 0)})
    /\ exchange = NoExchange
    /\ wire = NoWire
    /\ control_conn = NoControlConn
    /\ \E init_raises \in BOOLEAN :
         genserver = [pc |-> "made",
                      init_raises |-> init_raises,
                      _running |-> FALSE,
                      _thread |-> "none",
                      _mailbox |-> <<>>,
                      _current_state |-> <<>>,
                      _reply_queues |-> <<>>,
                      caller |-> "idle",
                      correlation_id |-> 0,
                      timeout |-> FALSE,
                      last |-> Returned("__init__"),
                      handled |-> StopCommand,
                      terminated |-> 0,
                      log |-> <<>>,
                      epoch |-> 0,
                      starts |-> 0, stops |-> 0, sends |-> 0]

NextGenServer ==
    \/ GenServerStart
    \/ GenServerStop
    \/ GenServerStopReturns
    \/ GenServerCast
    \/ GenServerCall
    \/ GenServerCallReturns
    \/ GenServerCallTimeout
    \/ LoopInit
    \/ LoopWhile
    \/ LoopGet
    \/ LoopEmpty

SpecGenServer == InitGenServer /\ [][NextGenServer]_vars

(***************************************************************************)
(* ReTunnelClient (client/client.py): request_tunnel and the task of       *)
(* _handle_control_messages both await receive() of the control            *)
(* connection, which takes from the one queue its reader task fills        *)
(* (core/connection.py, lines 69-72 and 98-110).  A message in the queue   *)
(* goes to whichever of the waiting coroutines asked first; the handler    *)
(* asks anew every second, so either may be first.                         *)
(***************************************************************************)
\* the messages the gateway sends in a run
MaxPuts == 3

\* the types of the messages for the handler, and of the replies to a
\* ReqTunnel
HandlerTypes == {"ReqProxy", "Pong"}
ReplyTypes == {"NewTunnel", "ErrorResp"}

ControlConnFrame ==
    UNCHANGED <<clientVars, taskVars, histVars, req_proxy_tasks,
                proxy_tasks, proxy_connections, sessions, old_streams,
                exchange, wire, genserver>>

\* request_tunnel up to its receive (lines 280-296): the ReqTunnel is sent
RtRequestTunnel ==
    /\ control_conn.pc = "running"
    /\ control_conn.request = "idle"
    /\ control_conn' = [control_conn EXCEPT !.request = "waiting"]
    /\ ControlConnFrame

\* the reader task queues a message of the gateway (connection.py, lines
\* 69-72): its reply to the ReqTunnel, or a ReqProxy or Pong
RtReaderPuts ==
    /\ control_conn.pc = "running"
    /\ control_conn.left > 0
    /\ \E type \in HandlerTypes \cup
                    (IF control_conn.request = "waiting"
                        /\ ~control_conn.replied
                     THEN ReplyTypes ELSE {}) :
         control_conn' =
            [control_conn EXCEPT
               !.queue = Append(@, type),
               !.left = @ - 1,
               !.replied = @ \/ type \in ReplyTypes]
    /\ ControlConnFrame

\* receive(timeout=1) of _handle_control_messages returns a message
\* (lines 233-249): a ReqProxy starts a proxy task, a Pong and anything
\* else are logged
RtHandlerTakes ==
    /\ control_conn.pc = "running"
    /\ control_conn.queue # <<>>
    /\ LET msg == Head(control_conn.queue)
       IN  control_conn' =
             [control_conn EXCEPT
                !.queue = Tail(@),
                !.handled = Append(@, msg),
                !.spawned = IF msg = "ReqProxy" THEN @ + 1 ELSE @]
    /\ ControlConnFrame

\* how request_tunnel ends on what its receive returned (lines 299-313)
RtOutcome(resp) ==
    IF resp = "NewTunnel" THEN "tunnel" ELSE "TunnelError"

\* receive(timeout=10) of request_tunnel returns a message (lines 296-313)
RtRequestTakes ==
    /\ control_conn.pc = "running"
    /\ control_conn.request = "waiting"
    /\ control_conn.queue # <<>>
    /\ LET resp == Head(control_conn.queue)
       IN  control_conn' =
             [control_conn EXCEPT
                !.queue = Tail(@),
                !.request = "done",
                !.resp = resp,
                !.outcome = RtOutcome(resp)]
    /\ ControlConnFrame

\* the 10 seconds are over: receive returns None (connection.py, lines
\* 109-110) and request_tunnel raises "Invalid tunnel response"
RtRequestTimeout ==
    /\ control_conn.pc = "running"
    /\ control_conn.request = "waiting"
    /\ control_conn.queue = <<>>
    /\ control_conn' =
          [control_conn EXCEPT !.request = "done", !.resp = "None",
                               !.outcome = RtOutcome("None")]
    /\ ControlConnFrame

\* a connected, authenticated client whose background tasks run
InitControlConn ==
    /\ InitSupervisor({OldToken}, {OldToken}, {Budget(0, 0, 0, 0)})
    /\ exchange = NoExchange
    /\ wire = NoWire
    /\ genserver = NoGenServer
    /\ control_conn = [pc |-> "running", queue |-> <<>>,
                       request |-> "idle", resp |-> "None",
                       outcome |-> "", replied |-> FALSE,
                       handled |-> <<>>, spawned |-> 0, left |-> MaxPuts]

NextControlConn ==
    \/ RtRequestTunnel
    \/ RtReaderPuts
    \/ RtHandlerTakes
    \/ RtRequestTakes
    \/ RtRequestTimeout

SpecControlConn == InitControlConn /\ [][NextControlConn]_vars

(***************************************************************************)
(* The control loop on a binary message that is only a length prefix of 0  *)
(* (_receive_message, lines 474-505, under _control_loop, lines 931-962).  *)
(***************************************************************************)
\* the bytes of a frame of declared length 0: the prefix, no payload
EmptyFrame == PackQ(0)

\* the gateway writes such a frame and ws.receive() of the control loop
\* returns it
GatewaySendsEmptyFrame ==
    /\ ctl.pc = "recv"
    /\ control_ws = "open"
    /\ budget.drops > 0
    /\ budget' = [budget EXCEPT !.drops = budget.drops - 1]
    /\ ctl' = [pc |-> "raw", msg |-> NoFrame]
    /\ UNCHANGED <<clientVars, conn, heartbeat_tasks, subdomain_tasks, rc,
                   calls, closing, connect_outcome, authLog, authResps,
                   apiLog, sleeps, rereqOf, rereqLog, errLog, lastCall,
                   nextReq, proxyVars>>

\* _receive_message strips the prefix and unpacks the rest (lines 482-494):
\* a map goes to _handle_message, which finds no Type in an empty one
\* (lines 509-545); an exception of msgpack is no ClientError and ends the
\* loop in its outer except clause (lines 956-962)
CtlDecodes ==
    /\ ctl.pc = "raw"
    /\ LET got == Unpackb(Strip(EmptyFrame))
       IN  IF got.ok
           THEN /\ ctl' = [pc |-> AfterHandle(NoFrame,
                                     LoopGoesOn(_running, control_ws)),
                           msg |-> NoFrame]
                /\ UNCHANGED <<is_connected, connection_status, rc>>
           ELSE CtlFails("Error")
    /\ UNCHANGED <<auth_token, control_ws, _reconnect_delay, _reconnecting,
                   _running, tunnels, pending_requests, configs,
                   stored_token, conn, heartbeat_tasks, subdomain_tasks,
                   calls, closing, histVars, proxyVars>>

InitEmptyFrame ==
    InitClient({OldToken}, {OldToken},
               {Budget(0, MaxDrops, MaxUserCalls, 0)})

NextEmptyFrame ==
    \/ UserConnect
    \/ ConnectOpen
    \/ ConnectAuthResp
    \/ RcStart
    \/ RcWake
    \/ UserRequestTunnel
    \/ ReqComplete
    \/ ReqTimeout
    \/ GatewaySends
    \/ GatewaySendsEmptyFrame
    \/ CtlStart
    \/ CtlHandle
    \/ CtlDecodes
    \/ HeartbeatEnds
    \/ SubdomainHeartbeatEnds

SpecEmptyFrame == InitEmptyFrame /\ [][NextEmptyFrame]_vars

(***************************************************************************)
(* Reconnection (C1 - C5).                                                 *)
(***************************************************************************)
\* C1: whenever the dispatcher of a running supervisor has stopped because
\* the control stream failed or was found closed, a reconnect task is there.
C1_FailureStartsReconnect ==
    (_running /\ ctl.pc \in {"failed", "ended"}) => rc.pc # "none"

\* C2: the reconnect task of a running supervisor ends only with the
\* supervisor connected; nothing but close() ends it otherwise.
C2_ReconnectEndsConnected ==
    [][(rc.pc # "none" /\ rc'.pc = "none") => (is_connected' \/ ~_running')]_vars

\* C3: the delay stays within 1..16, it is 1 after a connect() that
\* succeeded, and the i-th sleep of a reconnect task is 1, 2, 4, 8, 16, 16, ...
C3_Backoff ==
    /\ _reconnect_delay >= 1
    /\ _reconnect_delay <= 16
    /\ connect_outcome = "ok" => _reconnect_delay = 1
    /\ \A i \in 1..Len(sleeps) :
          sleeps[i] = IF i < 5 THEN 2 ^ (i - 1) ELSE 16

\* a reconnect that slept 1, 2, 4, 8, 16 and 16 s and then succeeded
C3_SleptToTheCeiling ==
    /\ sleeps = <<1, 2, 4, 8, 16, 16>>
    /\ connect_outcome = "ok"
    /\ is_connected
    /\ _reconnect_delay = 1

\* the Subdomain of the ReqTunnel the code sends for a tunnel of the registry
RerequestedSubdomain(e) ==
    IF e.tunnel.protocol = "http" THEN e.tunnel.subdomain
    ELSE OrEmpty(e.before.subdomain)

C5_TunnelsSurviveReconnect ==
    (closing = "no" /\ rc.pc = "none" /\ lastCall.caller = "rc") =>
        \A i \in 1..Len(rereqOf) :
            \/ rereqOf[i].id \in errLog
            \/ \E j \in 1..Len(tunnels) :
                  /\ tunnels[j].id = rereqOf[i].id
                  /\ tunnels[j].url = rereqOf[i].url

(***************************************************************************)
(* request_tunnel (C6 - C8).                                               *)
(***************************************************************************)
\* C6: a request_tunnel of the operator on a supervisor that is not
\* connected ends without a wait and without a frame sent.
C6_NotConnectedFailsAtOnce ==
    (lastCall.caller = "user" /\ ~lastCall.connected) =>
        (~lastCall.waited /\ ~lastCall.sent)

\* the outcomes with which request_tunnel raises after its wait
Failures == {"ErrorResp", "TunnelError", "Timeout"}

C8_ReturnedTunnel ==
    (lastCall.outcome = "ok" /\ closing = "no") =>
        /\ lastCall.tunnel.config = lastCall.config
        /\ lastCall.tunnel.id # ""
        /\ \E j \in 1..Len(tunnels) : tunnels[j].id = lastCall.tunnel.id

(***************************************************************************)
(* Authentication and token repair (C9, C10).                              *)
(***************************************************************************)
\* connect() raised `kind`: not connected, no background task
Failed(kind) ==
    /\ connect_outcome = kind
    /\ conn = Idle
    /\ ~is_connected
    /\ ctl = NoCtl
    /\ heartbeat_tasks = [latest |-> FALSE, older |-> 0]

\* the registrar calls of the token repair
Reactivations == { i \in 1..Len(apiLog) : apiLog[i].call = "reactivate" }

\* C9, as the code has it: a connect() sends at most two Auth frames and
\* repairs the token at most once; a first AuthResp whose Error contains
\* "Invalid auth token" starts the repair, any other Error ends connect()
\* with an authentication error, and so does an Error in the second
\* AuthResp; connect() then leaves the supervisor not connected and
\* without background tasks.
C9_AuthAtMostTwice ==
    /\ Len(authLog) <= 2
    /\ Len(authResps) <= Len(authLog)
    /\ Cardinality(Reactivations) <= 1
    /\ (Len(authResps) >= 1 /\ authResps[1] # <<>>) =>
          IF Contains(authResps[1], InvalidAuthToken)
          THEN connect_outcome # "AuthenticationError"
          ELSE Failed("AuthenticationError")
    /\ (Len(authResps) = 2 /\ authResps[2] # <<>>) =>
          Failed("AuthenticationErrorAfterRepair")

\* a connect() whose retry after the repair was refused
C9_RefusedAfterRepair ==
    /\ Len(authLog) = 2
    /\ Len(authResps) = 2
    /\ Cardinality(Reactivations) = 1
    /\ authResps[2] # <<>>
    /\ connect_outcome = "AuthenticationErrorAfterRepair"

\* C9 as claimed: every Error other than the text "Invalid auth token"
\* itself ends connect() with an authentication error.
C9_OnlyTheLiteralRepairs ==
    (Len(authResps) >= 1 /\ authResps[1] \notin {<<>>, InvalidAuthToken}) =>
        connect_outcome = "AuthenticationError"

\* C10: after a first AuthResp with "Invalid auth token" the stream is
\* closed, reactivate is called with the token of the first Auth and
\* register follows exactly when reactivate answered 404; the second Auth
\* carries the token the registrar returned, which is then the stored
\* one; when the second AuthResp has no Error connect() ends connected.
C10_TokenRepair ==
    (Len(authResps) >= 1 /\ Contains(authResps[1], InvalidAuthToken)) =>
        /\ conn.pc = "repair" => (control_ws = "closed" /\ Reactivations = {})
        /\ conn.pc # "repair" =>
              \E k \in Reactivations :
                  /\ apiLog[k].arg = authLog[1]
                  /\ \A i \in (k + 1)..Len(apiLog) :
                        /\ i = k + 1
                        /\ apiLog[i].call = "register"
                  /\ (apiLog[k].status = 404) = (Len(apiLog) = k + 1)
        /\ Len(authLog) = 2 =>
              /\ apiLog[Len(apiLog)].status = 200
              /\ authLog[2] \in {Minted[i] : i \in 1..Len(Minted)}
              /\ authLog[2] # authLog[1]
              /\ authLog[2] = auth_token
              /\ authLog[2] = stored_token
        /\ (Len(authResps) = 2 /\ authResps[2] = <<>> /\ closing = "no") =>
              /\ connect_outcome = "ok"
              /\ is_connected
              /\ conn = Idle

\* a connect() repaired by a registration after reactivate answered 404
C10_RegisteredAfter404 ==
    /\ Len(authLog) = 2
    /\ Len(apiLog) >= 2
    /\ apiLog[Len(apiLog) - 1].call = "reactivate"
    /\ apiLog[Len(apiLog) - 1].status = 404
    /\ apiLog[Len(apiLog)].call = "register"
    /\ authResps = <<InvalidAuthToken, <<>> >>
    /\ connect_outcome = "ok"
    /\ is_connected

(***************************************************************************)
(* close() (C11 - C14).                                                    *)
(***************************************************************************)
\* a step in which a close() returns
CloseReturns == closing \in {"begun", "again"} /\ closing' \notin {"begun", "again"}

\* the tasks and streams of the supervisor, close()'s own position aside
Owned == <<conn, ctl, heartbeat_tasks, subdomain_tasks, rc, calls,
           req_proxy_tasks, proxy_tasks, proxy_connections, sessions>>

\* C11: no close() raises, on a supervisor that never connected included,
\* and neither half of a close() on a supervisor that was closed before
\* changes a field, a task or a stream: the state is that of the one close().
C11_CloseIdempotent ==
    [][/\ closing' # "failed"
       /\ ((closing = "done" /\ closing' = "again")
             \/ (closing = "again" /\ closing' = "done"))
          => (clientVars' = clientVars /\ Owned' = Owned)]_vars

\* a supervisor that was connected, held a tunnel and was closed twice
C11_ClosedTwice ==
    /\ closing = "done"
    /\ budget.closes = 0
    /\ control_ws = "closed"
    /\ lastCall.outcome = "ok"
    /\ tunnels = <<>>

\* C12: when close() returns the supervisor is not running and not
\* connected, and the registry and the pending-request table are empty.
C12_ClosedAndEmpty ==
    [][CloseReturns =>
          /\ ~_running'
          /\ ~is_connected'
          /\ tunnels' = <<>>
          /\ pending_requests' = {}]_vars

\* C13: when close() returns no task of the supervisor is pending
\* (dispatcher, liveness and subdomain heartbeats, proxy-opening and
\* proxy-session tasks, reconnect task) and no stream it opened is open.
C13_NothingLeftRunning ==
    [][CloseReturns =>
          /\ ctl'.pc \notin {"start", "recv", "ready"}
          /\ heartbeat_tasks' = [latest |-> FALSE, older |-> 0]
          /\ subdomain_tasks' = <<>>
          /\ req_proxy_tasks' = 0
          /\ rc'.pc = "none"
          /\ conn' = Idle
          /\ control_ws' # "open"
          /\ \A i \in 1..Len(sessions') :
                /\ sessions'[i].pc = "ended"
                /\ sessions'[i].ws # "open"
                /\ sessions'[i].local # "open"]_vars

\* the entries of the registry `after` that are not in `before` as they are
NewOrChanged(before, after) ==
    { j \in 1..Len(after) : ~\E i \in 1..Len(before) : before[i] = after[j] }

\* C14: once close() has begun, no step of a task of the supervisor adds
\* or changes an entry of the registry (its byte counters included), of
\* the pending-request table, of the tracked proxy connections or of the
\* tracked proxy tasks, and none changes the connection status.
C14_QuietOnceClosing ==
    [][(closing # "no" /\ closing' = closing /\ budget'.calls = budget.calls)
          => /\ NewOrChanged(tunnels, tunnels') = {}
             /\ pending_requests' \subseteq pending_requests
             /\ proxy_connections' \subseteq proxy_connections
             /\ proxy_tasks' \subseteq proxy_tasks
             /\ connection_status' = connection_status]_vars

(***************************************************************************)
(* Byte counters (C15).                                                    *)
(***************************************************************************)
\* C15: the bytes_in and bytes_out read from the registry under a tunnel's
\* id never decrease while the registry holds the id, a reconnect that
\* re-requests the tunnel included.
C15_CountersNeverDecrease ==
    [][\A i \in 1..Len(tunnels), j \in 1..Len(tunnels') :
          tunnels[i].id = tunnels'[j].id =>
              /\ tunnels'[j].bytes_in >= tunnels[i].bytes_in
              /\ tunnels'[j].bytes_out >= tunnels[i].bytes_out]_vars

(***************************************************************************)
(* Redirect rewriting (C16, C17).                                          *)
(***************************************************************************)
\* the atoms that begin with ":"
PortAtoms == {":8080", ":6400", ":1"}

\* the scheme and authority of a URL: what comes before its path, query
\* and fragment
Origin(url) ==
    SubSeq(url, 1,
           FirstIn(url, SlashAtoms \cup QueryAtoms \cup FragmentAtoms) - 1)

\* the length of the scheme and authority of a URL whose authority is
\* localhost or 127.0.0.1 with or without a port; 0 for every other value
LoopbackOrigin(v) ==
    IF Len(v) >= 2 /\ v[1] \in {"http://", "https://"}
                   /\ v[2] \in {"localhost", "127.0.0.1"}
    THEN LET n == IF Len(v) >= 3 /\ v[3] \in PortAtoms THEN 3 ELSE 2
         IN  IF Len(v) = n
                \/ v[n + 1] \in SlashAtoms \cup QueryAtoms \cup FragmentAtoms
             THEN n ELSE 0
    ELSE 0

\* the Location a response of the local service has: the index of the
\* header, 0 when the status is no redirect or there is no such header
Redirected(local) ==
    IF local.status \in RedirectStatuses
    THEN LocationIndex(local.headers) ELSE 0

\* C16: in the response sent for a redirect (301, 302, 303, 307, 308) with
\* a Location header, whatever the case of its key, a value that begins
\* with "/" has become the tunnel URL without its trailing slash followed
\* by the value, and a value whose scheme and authority are http(s) and
\* localhost or 127.0.0.1, with or without a port, has become the tunnel's
\* scheme and authority followed by the value's path, query and fragment.
C16_RedirectsRewritten ==
    (exchange.pc = "sent" /\ Redirected(exchange.local) # 0) =>
        LET i == Redirected(exchange.local)
            v == exchange.local.headers[i].value
            url == exchange.url
            out == exchange.sent[1].headers[i].value
        IN  /\ (v # <<>> /\ v[1] \in SlashAtoms) =>
                  out = (IF url[Len(url)] = "/"
                         THEN SubSeq(url, 1, Len(url) - 1) ELSE url) \o v
            /\ LoopbackOrigin(v) > 0 =>
                  out = Origin(url) \o SubSeq(v, LoopbackOrigin(v) + 1, Len(v))

\* the redirect to http://localhost:8080/x?y=1 of a local service behind
\* https://demo.retunnel.net/ went out as https://demo.retunnel.net/x?y=1
C16_LoopbackRewritten ==
    /\ exchange.pc = "sent"
    /\ exchange.local.status = 302
    /\ exchange.url = <<"https://", "demo", ".retunnel.net", "/">>
    /\ exchange.local.headers =
          <<ContentType,
            [key |-> "location",
             value |-> <<"http://", "localhost", ":8080", "/x", "?y=1">>]>>
    /\ exchange.sent[1].headers[2].value =
          <<"https://", "demo", ".retunnel.net", "/x", "?y=1">>

\* C17: the response sent has the headers of the local service's response,
\* keys and values, but for the Location of a redirect whose value begins
\* with "/" or has localhost or 127.0.0.1, with or without a port, as its
\* authority: every other status, every other value (a host whose name
\* only starts with "localhost", a URL with the tunnel's authority) and
\* every other header is as it was.
C17_OtherwiseUntouched ==
    exchange.pc = "sent" =>
        LET hs == exchange.local.headers
            out == exchange.sent[1].headers
            i == Redirected(exchange.local)
        IN  /\ Len(out) = Len(hs)
            /\ \A j \in 1..Len(hs) :
                  /\ out[j].key = hs[j].key
                  /\ (j # i
                        \/ ~(\/ (hs[j].value # <<>> /\ hs[j].value[1] \in SlashAtoms)
                             \/ LoopbackOrigin(hs[j].value) > 0))
                     => out[j].value = hs[j].value

(***************************************************************************)
(* The response of the local service (C18, C19).                           *)
(***************************************************************************)
\* the response has no header terminator, or its status line has no
\* number after its first space
Unparseable(stream) ==
    \/ IndexOf(stream, CRLF \o CRLF) = 0
    \/ LET line == Split(stream, CRLF)[1]
           parts == Split(line, <<" ">>)
       IN  Len(parts) < 2 \/ ~IsInt(parts[2])

\* C18: when the handling of a Proxy request that was written to the local
\* service is over, exactly one Proxy response frame has been sent on the
\* stream, with status 500 when the response of the local service has no
\* header terminator or a malformed status line.
C18_OneResponsePerRequest ==
    exchange.pc \in {"sent", "dropped"} =>
        /\ Len(exchange.sent) = 1
        /\ Unparseable(exchange.local) => exchange.sent[1].status = 500

\* the bytes after the header terminator: the first Content-Length of
\* them when the header is there, all of them otherwise
ExpectedBody(stream) ==
    LET header_end == IndexOf(stream, CRLF \o CRLF)
        after == SubSeq(stream, header_end + 4, Len(stream))
        lines == Split(SubSeq(stream, 1, header_end - 1), CRLF)
        content_length == GetContentLength(ParseHeaders(Tail(lines), <<>>))
    IN  IF content_length = <<>> THEN after
        ELSE SubSeq(after, 1, Min(Ints[content_length[1]], Len(after)))

\* C19: the body of the response frame is the first Content-Length bytes
\* that follow the header terminator when the response has a
\* Content-Length, and every byte up to the close otherwise, however the
\* response was cut into reads.
C19_BodyForwarded ==
    (exchange.pc = "sent" /\ IndexOf(exchange.local, CRLF \o CRLF) # 0) =>
        exchange.sent[1].body = ExpectedBody(exchange.local)

(***************************************************************************)
(* The frame codec (C20).                                                  *)
(***************************************************************************)
\* C20: what _receive_message returns for a message that _send_message or
\* the peer wrote is the frame that was written, whether the message
\* carries the 8-byte length or not, and the first 8 bytes were taken off
\* exactly when the writer had put the length there.
C20_CodecRoundTrip ==
    wire.pc = "received" =>
        /\ wire.got = [ok |-> TRUE, v |-> wire.frame]
        /\ wire.stripped = wire.prefixed

\* a frame with a byte string came bare, in 8 bytes or more, and another
\* came after its length
C20_BareFrameReceived ==
    /\ wire.pc = "received"
    /\ ~wire.prefixed
    /\ Len(wire.data) >= 8
    /\ \E i \in 1..Len(wire.frame.v) : wire.frame.v[i][2].t = "bin"
    /\ wire.got.ok

(***************************************************************************)
(* The size cap on received frames (C21).                                  *)
(***************************************************************************)
\* C21: the reader never waits for more bytes of a frame whose declared
\* length is above the cap, and never has queued anything from it: the
\* connection is closed with a ProtocolError instead.
C21_OversizedFrameRefused ==
    wire.pc \in {"recv", "more", "closed"} =>
        (wire.msg_length > SizeCap =>
            wire._closed /\ wire.error = "ProtocolError")

(***************************************************************************)
(* GenServer (C22, C23).                                                   *)
(***************************************************************************)
\* what start, stop, cast and call share with the thread
ServerState(gs) ==
    <<gs._running, gs._thread, gs._mailbox, gs._current_state,
      gs._reply_queues>>

RECURSIVE StateAfter(_, _, _, _)
\* the state that handling log[from..to] in order makes of `state`, a
\* handler that raises leaving it as it was
StateAfter(log, from, to, state) ==
    IF from > to THEN state
    ELSE LET msg == log[from]
             next == CASE msg.kind = "cast" -> HandleCast(msg.action, state).state
                       [] msg.kind = "call" -> HandleCall(msg.action, state).state
                       [] OTHER -> state
         IN  StateAfter(log, from + 1, to, next)

\* what the call enqueued as log[k] must return
ExpectedResponse(log, epoch, k) ==
    HandleCall(log[k].action, StateAfter(log, epoch + 1, k - 1, <<0>>)).response

\* the thread handles a message in this step
Handles ==
    /\ genserver.pc = "made"
    /\ genserver._thread = "get"
    /\ genserver'._thread = "while"
    /\ genserver._mailbox # <<>>

\* C23: the message the thread handles is the oldest one enqueued and not
\* yet handled; a call returns what handle_call answers in the state that
\* the messages enqueued before it made of the state of init; a handler
\* that raises leaves the server running and its state as it was, and
\* handle_call raising puts a GenServerError object into the reply queue.
C23_HandledInOrder ==
    [][/\ Handles =>
             LET msg == genserver.log[Len(genserver.log)
                                      - Len(genserver._mailbox) + 1]
             IN  /\ genserver'.handled = msg
                 /\ genserver'._mailbox = Tail(genserver._mailbox)
                 /\ genserver'._running = genserver._running
                 /\ msg.action \in {"error_cast", "error_call"} =>
                       genserver'._current_state = genserver._current_state
                 /\ (msg.action = "error_call"
                       /\ msg.id \in DOMAIN genserver._reply_queues) =>
                       genserver'._reply_queues[msg.id]
                          = <<GenServerErrorValue>>
       /\ (/\ genserver.pc = "made"
           /\ genserver.caller = "waiting"
           /\ genserver'.caller = "idle"
           /\ genserver'.last.result = "returned") =>
             genserver'.last.response =
                ExpectedResponse(genserver.log, genserver.epoch,
                                 genserver.correlation_id)]_vars

\* a call was answered with the count 1 after an increment was cast and,
\* after that, a call had made handle_call raise
C23_AnsweredAfterErrors ==
    /\ genserver.pc = "made"
    /\ genserver.last.op = "call"
    /\ genserver.last.result = "returned"
    /\ genserver.last.response = Value(1)
    /\ \E i, j \in 1..Len(genserver.log) :
         /\ i < j
         /\ genserver.log[i].action = "increment"
         /\ genserver.log[j].action = "error_call"

(***************************************************************************)
(* One control stream (C24).                                               *)
(***************************************************************************)
\* C24: the supervisor never has two open control streams: the stream
\* that self.control_ws named is closed before the field is given a
\* new one.
C24_OneControlStream ==
    old_streams + (IF control_ws = "open" THEN 1 ELSE 0) <= 1

(***************************************************************************)
(* The pending-request table (C25 - C27).                                  *)
(***************************************************************************)
\* C25: when the _reconnect task starts to run on a running supervisor,
\* the pending-request table is emptied and no request_tunnel call goes
\* on waiting for a reply to a ReqTunnel of the session that was lost.
C25_DrainedOnReconnect ==
    [][(rc.pc = "created" /\ rc'.pc = "sleep") =>
          /\ pending_requests' = {}
          /\ calls' = {}]_vars

\* C26: an entry of the pending-request table is the waiter of a
\* request_tunnel call that has not returned or raised yet.
C26_RemovedOnEveryPath ==
    \A f \in pending_requests : \E c \in calls : c.rid = f.rid

\* the dispatcher handles a NewTunnel or ErrorResp frame in this step
HandlesReply ==
    /\ ctl.pc = "ready"
    /\ ctl'.pc # "ready"
    /\ ctl.msg.Type \in {"NewTunnel", "ErrorResp"}

HeartbeatLoops ==
    heartbeat_tasks.older + (IF heartbeat_tasks.latest THEN 1 ELSE 0)

\* C28: while the supervisor has an open control stream, at most one
\* _heartbeat_loop task is there to send Ping on it: the one of an earlier
\* session was cancelled when that session was torn down.
C28_OneHeartbeatPerSession ==
    control_ws = "open" => HeartbeatLoops <= 1

\* the entries of the registry whose config asks for an HTTP tunnel
HttpTunnels ==
    { i \in 1..Len(tunnels) : configs[tunnels[i].config].protocol = "http" }

\* C29: while the supervisor has an open control stream, there are as
\* many _subdomain_heartbeat tasks as HTTP tunnels in the registry.
C29_HeartbeatPerHttpTunnel ==
    control_ws = "open" => Len(subdomain_tasks) = Cardinality(HttpTunnels)


\* C30: if sending the periodic liveness Ping fails while the supervisor is
\* running, the reconnect loop is triggered: once a Ping could not be sent
\* on the current stream and the control loop of that stream is over, a
\* _reconnect task is at work as long as the supervisor runs and nobody
\* closes or connects it.
C30_PingFailureReconnects ==
    ( /\ control_ws = "broken"
      /\ _running
      /\ closing = "no"
      /\ conn = Idle
      /\ ctl.pc \in {"ended", "failed"} ) => rc.pc # "none"


\* C31: close() closes every proxy stream before the control stream: at
\* the step of a close() that closes the control stream no proxy stream is
\* open any more.
C31_ProxyStreamsClosedFirst ==
    [][(/\ closing \in {"begun", "again"}
        /\ NotClosed(control_ws)
        /\ ~NotClosed(control_ws'))
       => \A i \in 1..Len(sessions') : sessions'[i].ws # "open"]_vars


\* C32: a proxy session whose first frame after RegProxy is not StartProxy
\* closes its stream and returns: it is over, its stream is closed and it
\* never has a local TCP connection.
C32_FirstFrameMustBeStartProxy ==
    \A i \in 1..Len(sessions) :
        sessions[i].skipped =>
            /\ sessions[i].pc = "ended"
            /\ sessions[i].ws = "closed"
            /\ sessions[i].local = "none"


\* C33: a proxy session that ends because no tunnel matches its StartProxy,
\* because the connect to the local port fails or because its stream fails
\* ends alone: its stream is closed and leaves the tracked proxy
\* connections, while the supervisor's fields (control stream and registry
\* included), its tasks (no reconnect is started) and every other session
\* stay as they are.
C33_SessionFailureIsLocal ==
    [][\A i \in 1..Len(sessions) :
          (sessions[i].pc = "recv" /\ sessions'[i].pc = "ended")
          => /\ sessions'[i].ws = "closed"
             /\ proxy_connections' = proxy_connections \ {i}
             /\ clientVars' = clientVars
             /\ taskVars' = taskVars
             /\ Len(sessions') = Len(sessions)
             /\ \A j \in 1..Len(sessions) :
                   j # i => sessions'[j] = sessions[j]]_vars

\* a session has ended while the control stream is open, a tunnel is
\* registered and another session goes on over its local connection
C33_OneEndedOtherGoesOn ==
    /\ control_ws = "open"
    /\ rc.pc = "none"
    /\ Len(tunnels) > 0
    /\ \E i, j \in 1..Len(sessions) :
          /\ sessions[i].pc = "ended"
          /\ sessions[j].pc = "recv"
          /\ sessions[j].ws = "open"
          /\ sessions[j].local = "open"
          /\ j \in proxy_connections


\* a proxy session is being opened, waits for its StartProxy or works on
\* its local connection
SessionPending ==
    \/ req_proxy_tasks > 0
    \/ \E i \in 1..Len(sessions) :
          sessions[i].pc \in {"created", "recv"} /\ sessions[i].ws = "open"

\* C34: handling a ReqProxy never blocks the dispatcher: the step that
\* handles it leaves the dispatcher at its next receive (or at the end of
\* its loop when the loop condition fails), and while a proxy session is
\* pending on an open control stream of a connected supervisor the
\* dispatcher is receiving or handling a frame.
C34_DispatcherNotBlocked ==
    [][/\ (ctl.pc = "ready" /\ ctl.msg.Type = "ReqProxy" /\ ctl' # ctl)
            => ctl'.pc = IF LoopGoesOn(_running, control_ws)
                         THEN "recv" ELSE "ended"
       /\ (SessionPending' /\ control_ws' = "open" /\ is_connected'
              /\ conn' = Idle /\ ctl'.pc # "start")
            => ctl'.pc \in {"recv", "ready"}]_vars

\* with a proxy session pending and a second ReqProxy already handled, the
\* dispatcher has received the NewTunnel reply of a waiting request_tunnel
C34_ReplyWhileSessionPending ==
    /\ SessionPending
    /\ budget.proxies = 0
    /\ ctl.pc = "ready"
    /\ ctl.msg.Type = "NewTunnel"
    /\ \E f \in pending_requests : f.rid = ctl.msg.ReqId /\ ~f.done


\* C35: the token held in memory is absent or a non-empty string, in every
\* reachable state.
C35_TokenNeverEmpty == auth_token # Empty


\* C36: a control frame of declared length 0 decodes to an empty map and
\* is rejected at the dispatcher: the step that takes it completes no
\* waiter, spawns no proxy session and changes no state of the supervisor,
\* and the dispatcher goes on to its next receive.
C36_EmptyFrameRejected ==
    [][(ctl.pc = "raw" /\ ctl' # ctl)
       => /\ ctl'.pc = "recv"
          /\ clientVars' = clientVars
          /\ rc' = rc
          /\ proxyVars' = proxyVars]_vars


\* C37: recv delivers exactly the frames that were sent, each once and in
\* order, however their bytes are cut into chunks: what the reader has
\* queued is always a beginning of what was sent, and all of it once the
\* stream is read to its end.
C37_FramesReassembled ==
    /\ Len(wire.queue) <= Len(wire.sent)
    /\ wire.queue = SubSeq(wire.sent, 1, Len(wire.queue))
    /\ wire.pc = "closed" => wire.queue = wire.sent


\* C38: at most one reconnect task is active at a time: a _reconnect task
\* is created only when none is there, a failure of the control loop while
\* one is in progress creates nothing, and _reconnecting is true exactly
\* while the task is between its start and its exit.
C38_OneReconnectTask ==
    [][/\ (rc'.pc = "created" /\ rc' # rc) => rc.pc = "none"
       /\ (ctl'.pc = "failed" /\ ctl.pc # "failed" /\ rc.pc # "none")
            => rc' = rc
       /\ _reconnecting' <=> rc'.pc \notin {"none", "created"}]_vars


\* C39: a public request whose StartProxy Url belongs to tunnel T is
\* forwarded to T's local port and counted on T's byte counters, never on
\* another tunnel of the registry.
C39_ForwardedToItsTunnel ==
    /\ exchange.pc # "start" =>
          /\ exchange.obj = exchange.target
          /\ exchange.port = exchange.registry[exchange.target].local_port
    /\ \A i \in 1..Len(exchange.registry) :
          i # exchange.target =>
             /\ exchange.registry[i].bytes_in = 0
             /\ exchange.registry[i].bytes_out = 0


\* C40: in ReTunnelClient every message of the control connection reaches
\* its intended consumer: the handler takes no NewTunnel or ErrorResp
\* reply, and what request_tunnel takes as its reply is no ReqProxy or
\* Pong.
C40_MessagesReachConsumer ==
    /\ \A i \in 1..Len(control_conn.handled) :
          control_conn.handled[i] \notin ReplyTypes
    /\ control_conn.resp \notin HandlerTypes

====
